---- MODULE Spec2Model ----
(***************************************************************************)
(* Model of the caching engine of black-mirror-v0: the platform fetchers   *)
(* (fetchTwitterData, fetchOnchainData, fetchMediumData, fetchLinkedInData,*)
(* fetchTelegramData), the 'cache' collection they share, and the routes   *)
(* that call them.  Time is counted in whole hours since an arbitrary      *)
(* positive epoch; a handler runs within one clock value.                  *)
(***************************************************************************)
EXTENDS Integers, Sequences, FiniteSets, TLC

VARIABLES
    now,        \* Date.now(), in hours
    cache,      \* the keyed documents of the 'cache' collection: key -> document
    history,    \* the follower rows of the 'cache' collection (key twitter:<id>:followers)
    apiCalls,   \* number of upstream fetch attempts made so far
    nCalls,     \* number of handler calls made so far
    refreshed,  \* the (company, platform, identifier) triples POST .../refresh answered 200 for
    last,       \* what the last handler call did and answered
    companies,  \* the documents of the 'companies' collection, in find() order
    sweep,      \* the background sweep of CacheService: its position and what it did
    pending,    \* the calls in flight between two of their awaits, each with its locals
    timers,     \* the interval timers CacheService.refreshData created, in creation order
    refreshIntervals  \* CacheService.refreshIntervals: key -> timer

vars == <<now, cache, history, apiCalls, nCalls, refreshed, last, companies, sweep, pending,
          timers, refreshIntervals>>

-----------------------------------------------------------------------------
(* Bounds of the model *)

MaxTime == 13
TickHours == 4
MaxOps == 2
MaxTweets == 1
MaxSweeps == 3
SweepTickHours == 3

(* Program constants, in hours *)

TTL_6H == 6
TTL_12H == 12
ONE_HOUR == 1
ONE_DAY == 24
ONE_WEEK == 168
THIRTY_DAYS == 720
REFRESH_INTERVAL == 6
StartTime == 1

Identifiers == {"acme"}
SweepIdentifiers == {"acme", "beta"}
Companies == {"AcmeCo"}
FollowerCounts == {100}
UpOutcomes == {"ok", "fail"}
SummaryOutcomes == {"ok", "fail"}
StoreOutcomes == {"ok", "fail"}

VALID_PLATFORMS == {"linkedin", "twitter", "telegram", "medium", "onchain"}
RequestPlatforms == VALID_PLATFORMS \cup {"OnChain", "myspace"}

Absent == 0 - 1

(* String.prototype.toLowerCase on the platform path parameters of the model *)
toLowerCase(s) == IF s = "OnChain" THEN "onchain" ELSE s

(* JavaScript truthiness of a number-or-undefined field *)
Truthy(x) == x # Absent /\ x # 0

(* new Date(t).toISOString() *)
toISOString(t) == <<"ISO", t>>

-----------------------------------------------------------------------------
(* Cache keys: a key is the sequence of its ':'-separated segments *)

FetcherKey(platform, identifier) == <<platform, identifier>>
RouteKey(companyName, platform, identifier) == <<companyName, platform, identifier>>

LegacyKey(identifier) == <<"onchain", identifier, "1700000000">>

(* `twitter_history:${identifier}`, the key the Twitter router's history route reads *)
HistoricalKey(identifier) == <<"twitter_history", identifier>>

CacheKeys ==
    {FetcherKey(p, i) : p \in VALID_PLATFORMS, i \in Identifiers}
    \cup {FetcherKey("onchain", i) : i \in SweepIdentifiers \cup {".*"}}
    \cup {LegacyKey(i) : i \in SweepIdentifiers}
    \cup {HistoricalKey(i) : i \in Identifiers}

-----------------------------------------------------------------------------
(* Payloads.  Every payload is a record over the same fields; a field the   *)
(* JavaScript object does not have holds Absent, "" or "undefined".        *)

NoStats == [current |-> Absent, dayCount |-> Absent, dayPct |-> Absent,
            weekCount |-> Absent, weekPct |-> Absent]
ZeroStats == [current |-> 0, dayCount |-> 0, dayPct |-> 0, weekCount |-> 0, weekPct |-> 0]

NoPercent == [num |-> 0, den |-> 0]

NoData ==
    [shape |-> "none", success |-> "undefined", error |-> "", platform |-> "",
     identifier |-> "", companyName |-> "", ver |-> 0, followerStats |-> NoStats,
     posts |-> 0, summary |-> "", source |-> "", lastUpdatedIso |-> <<>>,
     expiresAt |-> Absent, lastUpdated |-> Absent, followerCount |-> Absent,
     followersHistory |-> <<>>,
     followers24hChange |-> Absent, followers24hPercent |-> NoPercent]

(* { ...data, _source: src, _lastUpdated: iso } *)
Annotate(data, src, iso) == [data EXCEPT !.source = src, !.lastUpdatedIso = iso]

(* Number(x.toFixed(2)) of (num / den) * 100, held in hundredths of a percent *)
RoundDiv(a, b) ==
    IF a >= 0 THEN (2 * a + b) \div (2 * b) ELSE 0 - ((2 * (0 - a) + b) \div (2 * b))
PercentOf(num, den) == RoundDiv(num * 10000, den)

-----------------------------------------------------------------------------
(* The document store *)

NoDoc == [present |-> FALSE, data |-> NoData, lastUpdated |-> Absent, expiresAt |-> Absent]

DocFields == {"data", "lastUpdated", "expiresAt"}

(* findOne('cache', { key }) *)
findOne(c, key) == IF key \in DOMAIN c THEN c[key] ELSE NoDoc

(* updateOne('cache', { key }, update, { upsert: true }): the update is applied
   with $set, so a field the update does not name keeps its stored value *)
SetFields(doc, update) ==
    [f \in DocFields \cup {"present"} |->
        IF f = "present" THEN TRUE
        ELSE IF f \in DOMAIN update THEN update[f] ELSE doc[f]]
updateOne(c, key, update) == [c EXCEPT ![key] = SetFields(c[key], update)]

(* deleteMany('cache', { key: { $regex: `onchain:${identifier}:.*` } }): the
   pattern is not anchored, so it matches a key that holds the segments
   onchain, identifier anywhere, followed by a further segment *)
(* The identifier is put into the pattern as it came, so it is read as a
   regular expression: ".*" matches any segment, a plain name matches itself *)
RegexMatches(pattern, text) == pattern = ".*" \/ pattern = text
LegacyMatch(key, identifier) ==
    \E i \in 1..(Len(key) - 2) : key[i] = "onchain" /\ RegexMatches(identifier, key[i + 1])
(* cleanupOldCacheEntries: an error of the deleteMany is logged and swallowed *)
cleanupOldCacheEntries(c, identifier, st) ==
    IF st = "ok"
    THEN [k \in DOMAIN c |-> IF LegacyMatch(k, identifier) THEN NoDoc ELSE c[k]]
    ELSE c

(* What a fetcher call did: the store after it, the upstream attempts it made,
   and whether it returned a payload or threw *)
Outcome(c, h, calls, kind, payload) ==
    [cache |-> c, history |-> h, calls |-> calls, kind |-> kind, payload |-> payload]

Returned(c, h, calls, payload) == Outcome(c, h, calls, "return", payload)
Thrown(c, h, calls) == Outcome(c, h, calls, "throw", NoData)

-----------------------------------------------------------------------------
(* fetchTwitterData *)

(* find('cache', { key: 'twitter:<id>:followers', timestamp: { $gte: oneWeekAgo } })
   sorted newest first, then .find(d => d.timestamp <= target): the index of the
   row the stable sort puts first among the rows at or before target, 0 if none *)
HistoryLookup(h, identifier, oneWeekAgo, target) ==
    LET cand == {i \in 1..Len(h) : /\ h[i].identifier = identifier
                                   /\ h[i].timestamp >= oneWeekAgo
                                   /\ h[i].timestamp <= target}
    IN IF cand = {} THEN 0
       ELSE CHOOSE i \in cand :
                \A j \in cand : \/ h[j].timestamp < h[i].timestamp
                                \/ (h[j].timestamp = h[i].timestamp /\ i <= j)

(* oneDayAgoData?.followers || currentFollowers *)
ReferenceFollowers(h, idx, currentFollowers) ==
    IF idx # 0 /\ h[idx].followers # 0 THEN h[idx].followers ELSE currentFollowers

(* The follower row write: updateOne on the first row of the identifier written
   within the last hour (no upsert; true only when a row was modified), and
   insertOne when it returns false *)
RecentRow(h, identifier, lastHour) ==
    LET cand == {i \in 1..Len(h) : h[i].identifier = identifier /\ h[i].timestamp >= lastHour}
    IN IF cand = {} THEN 0 ELSE CHOOSE i \in cand : \A j \in cand : i <= j

WriteFollowerRowAlwaysInsert(h, identifier, currentFollowers, t) ==
    Append(h, [identifier |-> identifier, followers |-> currentFollowers, timestamp |-> t])
WriteFollowerRow(h, identifier, currentFollowers, t) ==
    LET row == [identifier |-> identifier, followers |-> currentFollowers, timestamp |-> t]
        idx == RecentRow(h, identifier, t - ONE_HOUR)
        updateResult == idx # 0 /\ h[idx] # row
    IN IF updateResult THEN [h EXCEPT ![idx] = row] ELSE Append(h, row)

TwitterStats(h, identifier, currentFollowers, t) ==
    LET oneDayAgo == t - ONE_DAY
        oneWeekAgo == t - ONE_WEEK
        oneDayAgoFollowers ==
            ReferenceFollowers(h, HistoryLookup(h, identifier, oneWeekAgo, oneDayAgo), currentFollowers)
        oneWeekAgoFollowers ==
            ReferenceFollowers(h, HistoryLookup(h, identifier, oneWeekAgo, oneWeekAgo), currentFollowers)
        oneDayChange == currentFollowers - oneDayAgoFollowers
        oneWeekChange == currentFollowers - oneWeekAgoFollowers
    IN [current |-> currentFollowers,
        dayCount |-> oneDayChange,
        dayPct |-> IF oneDayAgoFollowers > 0 THEN PercentOf(oneDayChange, oneDayAgoFollowers) ELSE 0,
        weekCount |-> oneWeekChange,
        weekPct |-> IF oneWeekAgoFollowers > 0 THEN PercentOf(oneWeekChange, oneWeekAgoFollowers) ELSE 0]

(* The payload built from a successful upstream answer *)
TwitterPayload(h, t, ver, identifier, companyName, resp, gem) ==
    [NoData EXCEPT
        !.shape = "social", !.success = "true", !.platform = "Twitter",
        !.identifier = identifier, !.companyName = companyName, !.ver = ver,
        !.followerStats = TwitterStats(h, identifier, resp.follower_count, t),
        !.posts = resp.tweets,
        !.summary = IF resp.tweets > 0 /\ gem = "ok" THEN "summary" ELSE "",
        !.source = "api", !.lastUpdatedIso = toISOString(t),
        !.expiresAt = t + TTL_12H]

(* The payload returned when the fetch failed and nothing is cached *)
TwitterErrorPayloadUnzeroed(t, identifier, companyName) ==
    [NoData EXCEPT
        !.shape = "social", !.success = "false", !.error = "Failed to fetch Twitter data",
        !.platform = "Twitter", !.identifier = identifier, !.companyName = companyName,
        !.source = "error", !.lastUpdatedIso = toISOString(t), !.expiresAt = t]
TwitterErrorPayload(t, identifier, companyName) ==
    [NoData EXCEPT
        !.shape = "social", !.success = "false", !.error = "Failed to fetch Twitter data",
        !.platform = "Twitter", !.identifier = identifier, !.companyName = companyName,
        !.followerStats = ZeroStats, !.posts = 0,
        !.source = "error", !.lastUpdatedIso = toISOString(t), !.expiresAt = t]

(* cachedData.lastUpdated || cachedData.expiresAt - ttl *)
CachedAt(doc, ttl) == IF Truthy(doc.lastUpdated) THEN doc.lastUpdated ELSE doc.expiresAt - ttl

(* cachedData && cachedData.expiresAt > Date.now() *)
IsLiveInverted(doc, t) == doc.present /\ doc.expiresAt < t
IsLive(doc, t) == doc.present /\ doc.expiresAt > t

(* The cache-hit test of the fetchers:
   !forceRefresh && cachedData && cachedData.expiresAt > Date.now() *)
ServeFromCacheIgnoringForce(forceRefresh, doc, t) == IsLive(doc, t)
ServeFromCache(forceRefresh, doc, t) == ~forceRefresh /\ IsLive(doc, t)

(* st = "fail": the writes of this call to the store are rejected; the first one
   reached, the follower row write, throws into the catch block *)
fetchTwitterData(c, h, t, n, identifier, companyName, forceRefresh, up, resp, gem, st) ==
    LET cacheKey == FetcherKey("twitter", identifier)
        cachedData == findOne(c, cacheKey)
    IN IF ServeFromCache(forceRefresh, cachedData, t)
       THEN Returned(c, h, 0,
                Annotate(cachedData.data, "cache", toISOString(CachedAt(cachedData, TTL_12H))))
       ELSE IF up = "ok" /\ st = "ok"
       THEN LET data == TwitterPayload(h, t, n + 1, identifier, companyName, resp, gem)
                h2 == WriteFollowerRow(h, identifier, resp.follower_count, t)
                c2 == updateOne(c, cacheKey,
                          [data |-> data, lastUpdated |-> t, expiresAt |-> t + TTL_12H])
            IN Returned(c2, h2, 1, data)
       ELSE LET errorCachedData == findOne(c, cacheKey)
            IN IF errorCachedData.present
               THEN Returned(c, h, 1,
                        Annotate(errorCachedData.data, "cache",
                                 toISOString(CachedAt(errorCachedData, TTL_12H))))
               ELSE Returned(c, h, 1, TwitterErrorPayload(t, identifier, companyName))

-----------------------------------------------------------------------------
(* fetchMediumData: no upstream call, a placeholder payload *)

MediumStats == [current |-> 2000, dayCount |-> 50, dayPct |-> 250, weekCount |-> 50, weekPct |-> 250]

MediumPayload(t, identifier, companyName) ==
    [NoData EXCEPT
        !.shape = "social", !.success = "true", !.platform = "Medium",
        !.identifier = identifier, !.companyName = companyName,
        !.followerStats = MediumStats, !.posts = 1,
        !.source = "api", !.lastUpdatedIso = toISOString(t), !.expiresAt = t + TTL_12H]

fetchMediumDataPerCompany(c, h, t, identifier, companyName, forceRefresh, st) ==
    LET cacheKey == FetcherKey("medium", identifier)
        cachedData == findOne(c, cacheKey)
    IN IF ServeFromCache(forceRefresh, cachedData, t) /\ cachedData.data.companyName = companyName
       THEN Returned(c, h, 0,
                Annotate(cachedData.data, "cache", toISOString(CachedAt(cachedData, TTL_12H))))
       ELSE IF st # "ok" THEN Thrown(c, h, 0)
       ELSE LET mockData == MediumPayload(t, identifier, companyName)
            IN Returned(updateOne(c, cacheKey,
                            [data |-> mockData, lastUpdated |-> t, expiresAt |-> t + TTL_12H]),
                        h, 0, mockData)
fetchMediumData(c, h, t, identifier, companyName, forceRefresh, st) ==
    LET cacheKey == FetcherKey("medium", identifier)
        cachedData == findOne(c, cacheKey)
    IN IF ServeFromCache(forceRefresh, cachedData, t)
       THEN Returned(c, h, 0,
                Annotate(cachedData.data, "cache", toISOString(CachedAt(cachedData, TTL_12H))))
       ELSE IF st # "ok" THEN Thrown(c, h, 0)
       ELSE LET mockData == MediumPayload(t, identifier, companyName)
            IN Returned(updateOne(c, cacheKey,
                            [data |-> mockData, lastUpdated |-> t, expiresAt |-> t + TTL_12H]),
                        h, 0, mockData)

-----------------------------------------------------------------------------
(* fetchOnchainData *)

OnchainPayload(t, ver, identifier, companyName) ==
    [NoData EXCEPT
        !.shape = "social", !.success = "true", !.platform = "Onchain",
        !.identifier = identifier, !.companyName = companyName, !.ver = ver,
        !.source = "api", !.lastUpdatedIso = toISOString(t), !.expiresAt = t + TTL_6H]

(* The catch block: the upstream error is rethrown as a new Error *)
OnchainFailureSoft(c, h, identifier) ==
    Returned(c, h, 1, [NoData EXCEPT !.shape = "social", !.success = "false",
                                     !.platform = "Onchain", !.identifier = identifier,
                                     !.source = "error"])
OnchainFailure(c, h, identifier) == Thrown(c, h, 1)

fetchOnchainData(c, h, t, n, identifier, companyName, forceRefresh, up, st) ==
    LET cacheKey == FetcherKey("onchain", identifier)
        c1 == cleanupOldCacheEntries(c, identifier, st)
        cachedData == findOne(c1, cacheKey)
    IN IF ServeFromCache(forceRefresh, cachedData, t)
       THEN Returned(c1, h, 0,
                Annotate(cachedData.data, "cache", toISOString(CachedAt(cachedData, TTL_6H))))
       ELSE IF up = "ok" /\ st = "ok"
       THEN LET responseData == OnchainPayload(t, n + 1, identifier, companyName)
            IN Returned(updateOne(c1, cacheKey,
                            [data |-> responseData, expiresAt |-> t + TTL_6H]),
                        h, 1, responseData)
       ELSE OnchainFailure(c1, h, identifier)

-----------------------------------------------------------------------------
(* fetchTelegramData, through fetchPlatformData: the upstream answer is returned
   as it came, and an upstream failure is returned as a payload, not thrown *)

TelegramPayload(ver, identifier) ==
    [NoData EXCEPT !.shape = "upstream", !.identifier = identifier, !.ver = ver]

TelegramErrorPayload(identifier) ==
    [NoData EXCEPT
        !.shape = "upstream", !.success = "false", !.error = "Unexpected error occurred",
        !.platform = "Telegram", !.identifier = identifier]

fetchPlatformData(c, h, n, identifier, up) ==
    IF up = "ok"
    THEN Returned(c, h, 1, TelegramPayload(n + 1, identifier))
    ELSE Returned(c, h, 1, TelegramErrorPayload(identifier))

fetchTelegramData(c, h, n, identifier, up) == fetchPlatformData(c, h, n, identifier, up)

-----------------------------------------------------------------------------
(* fetchLinkedInData (services/linkedin.service) *)

(* transformToFrontendFormat: data already in frontend format is returned as it
   is; a raw result is rebuilt as { companyProfile, posts }, which keeps neither
   followersHistory nor the result's lastUpdated, _source and expiresAt *)
transformToFrontendFormat(data) ==
    IF data.shape = "frontend" THEN data
    ELSE [NoData EXCEPT
            !.shape = "frontend", !.companyName = data.companyName, !.ver = data.ver,
            !.followerCount = IF Truthy(data.followerCount) THEN data.followerCount ELSE 0,
            !.posts = data.posts]

(* followersHistory.slice().reverse().find(h => now - h.timestamp >= 24h): the
   index of the last such point, 0 if none *)
PrevPoint(fh, t) ==
    LET cand == {i \in 1..Len(fh) : t - fh[i].timestamp >= ONE_DAY}
    IN IF cand = {} THEN 0 ELSE CHOOSE i \in cand : \A j \in cand : j <= i

(* followers24hChange, null (Absent) without a previous point *)
Change24h(fh, t, currentFollowers) ==
    IF PrevPoint(fh, t) = 0 THEN Absent ELSE currentFollowers - fh[PrevPoint(fh, t)].count

(* followers24hPercent as the exact fraction num / den, null (NoPercent) without
   a previous point or when its count is 0 *)
Percent24h(fh, t, currentFollowers) ==
    IF PrevPoint(fh, t) = 0 \/ fh[PrevPoint(fh, t)].count = 0 THEN NoPercent
    ELSE [num |-> (currentFollowers - fh[PrevPoint(fh, t)].count) * 100,
          den |-> fh[PrevPoint(fh, t)].count]

(* The history kept in the stored result: the cached one, the new point pushed,
   the points older than 30 days dropped *)
NextFollowersHistory(cachedData, followerCount, t) ==
    SelectSeq(Append(cachedData.data.followersHistory,
                     [count |-> followerCount, timestamp |-> t]),
              LAMBDA p : t - p.timestamp <= THIRTY_DAYS)

LinkedInResult(cachedData, t, ver, resp) ==
    [NoData EXCEPT
        !.shape = "linkedinRaw", !.companyName = "details.name", !.ver = ver,
        !.followerCount = resp.follower_count, !.posts = resp.tweets,
        !.lastUpdated = t, !.source = "api", !.lastUpdatedIso = toISOString(t),
        !.expiresAt = t + TTL_6H,
        !.followersHistory = NextFollowersHistory(cachedData, resp.follower_count, t)]

(* followerStats of the returned object: { totalFollowers, oneDayChange } *)
LinkedInStats(fh, t, followerCount) ==
    [NoStats EXCEPT
        !.current = followerCount,
        !.dayCount = IF Change24h(fh, t, followerCount) = Absent THEN 0
                     ELSE Change24h(fh, t, followerCount),
        !.dayPct = IF Percent24h(fh, t, followerCount) = NoPercent THEN 0
                   ELSE RoundDiv(Percent24h(fh, t, followerCount).num * 100,
                                 Percent24h(fh, t, followerCount).den)]

fetchLinkedInData(c, h, t, n, username, companyName, forceRefresh, up, resp, st) ==
    LET cacheKey == FetcherKey("linkedin", username)
        cachedData == findOne(c, cacheKey)
    IN IF ServeFromCache(forceRefresh, cachedData, t)
       THEN LET transformedData == transformToFrontendFormat(cachedData.data)
                fh == cachedData.data.followersHistory
            IN Returned(c, h, 0,
                   [Annotate(transformedData, "cache",
                        toISOString(IF Truthy(cachedData.lastUpdated)
                                    THEN cachedData.lastUpdated ELSE t))
                    EXCEPT !.followers24hChange = Change24h(fh, t, transformedData.followerCount),
                           !.followers24hPercent = Percent24h(fh, t, transformedData.followerCount)])
       ELSE IF up = "ok" /\ st = "ok"
       THEN LET result == LinkedInResult(cachedData, t, n + 1, resp)
                c2 == updateOne(c, cacheKey,
                          [data |-> result, lastUpdated |-> t, expiresAt |-> t + TTL_6H])
            IN Returned(c2, h, 1,
                   [Annotate(transformToFrontendFormat(result), "api", toISOString(t))
                    EXCEPT !.followerStats =
                        LinkedInStats(result.followersHistory, t, result.followerCount)])
       ELSE Thrown(c, h, 1)

-----------------------------------------------------------------------------
(* The observation of a handler call *)

TwitterResponses == [follower_count : FollowerCounts, tweets : 0..MaxTweets]
NoResponse == [follower_count |-> 0, tweets |-> 0]

(* The answers of the upstream services a call of a platform's fetcher can get:
   whether the upstream requests succeed, the profile and posts they return
   (Twitter, LinkedIn) and whether the summary generator succeeds (Twitter,
   asked only when there are posts) *)
UpstreamAnswers(platform) ==
    CASE platform = "twitter" ->
            {[up |-> "fail", resp |-> NoResponse, gem |-> "ok"]}
            \cup {[up |-> "ok", resp |-> r, gem |-> g] :
                      r \in {x \in TwitterResponses : x.tweets = 0}, g \in {"ok"}}
            \cup {[up |-> "ok", resp |-> r, gem |-> g] :
                      r \in {x \in TwitterResponses : x.tweets > 0}, g \in SummaryOutcomes}
      [] platform = "linkedin" ->
            {[up |-> "fail", resp |-> NoResponse, gem |-> "ok"]}
            \cup {[up |-> "ok", resp |-> r, gem |-> "ok"] : r \in TwitterResponses}
      [] platform \in {"onchain", "telegram"} ->
            {[up |-> u, resp |-> NoResponse, gem |-> "ok"] : u \in UpOutcomes}
      [] OTHER -> {[up |-> "ok", resp |-> NoResponse, gem |-> "ok"]}

Changed(c, c2) == {k \in CacheKeys : c2[k] # c[k]}

Observation(op, platform, identifier, companyName, force, up, st, c, out, status, payload) ==
    LET h == history IN
    [op |-> op, platform |-> platform, identifier |-> identifier,
     companyName |-> companyName, force |-> force,
     up |-> IF out.calls = 0 THEN "none" ELSE up, store |-> st, t |-> now,
     pre |-> findOne(c, FetcherKey(toLowerCase(platform), identifier)),
     calls |-> out.calls, kind |-> out.kind, status |-> status, payload |-> payload,
     wrote |-> Changed(c, out.cache), wroteHistory |-> out.history # h,
     preHistory |-> h,
     refreshedBefore |-> <<companyName, platform, identifier>> \in refreshed]

NoCall ==
    [op |-> "none", platform |-> "", identifier |-> "", companyName |-> "",
     force |-> FALSE, up |-> "", store |-> "", t |-> 0, pre |-> NoDoc, calls |-> 0, kind |-> "",
     status |-> 0, payload |-> NoData, wrote |-> {}, wroteHistory |-> FALSE,
     preHistory |-> <<>>,
     refreshedBefore |-> FALSE]

(* The fetcher of a (lower-case) platform name, as the routes' switch picks it *)
Fetcher(platform, c, h, t, n, identifier, companyName, force, up, resp, gem, st) ==
    CASE platform = "onchain" -> fetchOnchainData(c, h, t, n, identifier, companyName, force, up, st)
      [] platform = "linkedin" -> fetchLinkedInData(c, h, t, n, identifier, companyName, force, up, resp, st)
      [] platform = "twitter" -> fetchTwitterData(c, h, t, n, identifier, companyName, force, up, resp, gem, st)
      [] platform = "telegram" -> fetchTelegramData(c, h, n, identifier, up)
      [] platform = "medium" -> fetchMediumData(c, h, t, identifier, companyName, force, st)

(* Handlers run one at a time, and at most MaxOps of them in a behaviour *)
Idle == last = NoCall /\ nCalls < MaxOps

(* A handler call takes effect: the store it leaves, the upstream attempts it
   made, and the observation of it *)
Commit(out, obs) ==
    /\ nCalls' = nCalls + 1
    /\ cache' = out.cache
    /\ history' = out.history
    /\ apiCalls' = apiCalls + out.calls
    /\ last' = obs
    /\ UNCHANGED <<companies, sweep, pending, timers, refreshIntervals>>
    /\ refreshed' = IF obs.op = "cacheRefreshPost" /\ obs.status = 200
                    THEN refreshed \cup {<<obs.companyName, obs.platform, obs.identifier>>}
                    ELSE refreshed
    /\ UNCHANGED now

-----------------------------------------------------------------------------
(* CacheService: the background sweep over the companies *)

(* A document of the 'companies' collection: its name, the identifier of
   socialMedia.onchain ("" when the object has none), and the fetch ticket and
   lastUpdated of the data setCachedData stored in socialMedia.onchain *)
CompanyDoc(name, identifier) ==
    [name |-> name, onchain |-> identifier, ver |-> 0, lastUpdated |-> Absent]

CompanyDocs ==
    <<CompanyDoc("AcmeCo", "acme"), CompanyDoc("NoChainCo", ""), CompanyDoc("BetaCo", "beta")>>

(* No sweep has run: pos is the index of the company the running sweep is at (0
   when none runs), list the companies its find returned, due the time the timer
   fires next; runs, attempted, fetched and failed record what the sweeps did *)
NoSweep ==
    [pos |-> 0, list |-> <<>>, due |-> Absent, runs |-> 0, found |-> FALSE,
     attempted |-> {}, fetched |-> {}, failed |-> {}, raised |-> FALSE]

(* setCachedData(companyName, platform 'onchain', identifier, data): the company
   found by name gets socialMedia.onchain = { identifier, data, lastUpdated }, and
   a company document is inserted when none has the name *)
setCachedData(docs, companyName, identifier, data, t) ==
    IF \E i \in 1..Len(docs) : docs[i].name = companyName
    THEN [i \in 1..Len(docs) |->
            IF docs[i].name = companyName /\ (\A j \in 1..(i - 1) : docs[j].name # companyName)
            THEN [docs[i] EXCEPT !.onchain = identifier, !.ver = data.ver, !.lastUpdated = t]
            ELSE docs[i]]
    ELSE Append(docs, [name |-> companyName, onchain |-> identifier, ver |-> data.ver,
                       lastUpdated |-> t])

(* refreshOnchainData(companyName, identifier): fetchOnchainData without
   forceRefresh, then setCachedData; every error is logged and rethrown *)
refreshOnchainData(c, h, docs, t, n, companyName, identifier, up, st) ==
    LET data == fetchOnchainData(c, h, t, n, identifier, companyName, FALSE, up, st)
    IN IF data.kind = "throw"
       THEN [fetch |-> data, docs |-> docs, threw |-> TRUE]
       ELSE IF st # "ok"
       THEN [fetch |-> data, docs |-> docs, threw |-> TRUE]
       ELSE [fetch |-> data, threw |-> FALSE,
             docs |-> setCachedData(docs, companyName, identifier, data.payload, t)]

(* The loop of refreshAllOnchainData: the per-company try/catch logs the error of
   a company and the loop goes on to the next one *)
AfterCompanyAborting(pos, len, threw) == IF threw \/ pos >= len THEN 0 ELSE pos + 1
AfterCompany(pos, len, threw) == IF pos >= len THEN 0 ELSE pos + 1

(* The outer try/catch of refreshAllOnchainData: an error of the find is logged,
   none reaches the timer *)
ReachesTimer(findThrew) == FALSE

-----------------------------------------------------------------------------
(* Actions *)

LegacyDoc ==
    [present |-> TRUE, data |-> [NoData EXCEPT !.shape = "social", !.platform = "Onchain"],
     lastUpdated |-> Absent, expiresAt |-> StartTime]

Init ==
    /\ now = StartTime
    /\ \E legacy \in {NoDoc, LegacyDoc} :
          cache = [k \in CacheKeys |->
                     IF k \in {LegacyKey(i) : i \in Identifiers} THEN legacy ELSE NoDoc]
    /\ history = <<>>
    /\ apiCalls = 0
    /\ nCalls = 0
    /\ refreshed = {}
    /\ last = NoCall
    /\ companies = <<>>
    /\ sweep = NoSweep
    /\ pending = <<>>
    /\ timers = <<>>
    /\ refreshIntervals = <<>>

(* Time passes *)
Tick ==
    /\ last = NoCall
    /\ now + TickHours <= MaxTime
    /\ now' = now + TickHours
    /\ UNCHANGED <<cache, history, apiCalls, nCalls, refreshed, last, companies, sweep, pending, timers, refreshIntervals>>

(* A caller invokes the fetcher of a platform *)
CallFetcher ==
    /\ Idle
    /\ \E platform \in VALID_PLATFORMS, identifier \in Identifiers, companyName \in Companies,
       force \in BOOLEAN :
      \E a \in UpstreamAnswers(platform), st \in StoreOutcomes :
      \E out \in {Fetcher(platform, cache, history, now, apiCalls, identifier,
                           companyName, force, a.up, a.resp, a.gem, st)} :
        Commit(out, Observation("fetch", platform, identifier, companyName, force, a.up, st,
                                cache, out, 0, out.payload))

(* GET /api/social-media/:platform/:identifier?companyName=... ; a request
   without the query parameter carries companyName "" *)
BadRequestIgnoringCompany(platform, companyName) == platform \notin VALID_PLATFORMS
(* The two 400 answers of the route: companyName missing, empty or not a
   string (all of them the "" of the model), or a platform outside
   VALID_PLATFORMS *)
BadRequest(platform, companyName) ==
    companyName = "" \/ platform \notin VALID_PLATFORMS

SocialMediaGet ==
    /\ Idle
    /\ \E platform \in RequestPlatforms, identifier \in Identifiers,
       companyName \in Companies \cup {""} :
      \E a \in UpstreamAnswers(platform), st \in StoreOutcomes :
      \E out \in {IF BadRequest(platform, companyName)
                   THEN Returned(cache, history, 0, NoData)
                   ELSE Fetcher(platform, cache, history, now, apiCalls, identifier,
                                companyName, FALSE, a.up, a.resp, a.gem, st)} :
        LET status == IF BadRequest(platform, companyName) THEN 400
                      ELSE IF out.kind = "throw" THEN 500 ELSE 200
        IN Commit(out, Observation("socialMediaGet", platform, identifier, companyName,
                                   FALSE, a.up, st, cache, out, status, out.payload))

(* POST /api/cache/:companyName/:platform/:identifier/refresh { force } *)
CacheRefreshPost ==
    /\ Idle
    /\ \E platform \in RequestPlatforms, identifier \in Identifiers, companyName \in Companies,
       force \in BOOLEAN :
      \E a \in UpstreamAnswers(toLowerCase(platform)), st \in StoreOutcomes :
      \E fetched \in {IF toLowerCase(platform) \in VALID_PLATFORMS
                       THEN Fetcher(toLowerCase(platform), cache, history, now, apiCalls,
                                    identifier, companyName, force, a.up, a.resp, a.gem, st)
                       ELSE Returned(cache, history, 0, NoData)} :
        LET lower == toLowerCase(platform)
            cacheKey == FetcherKey(lower, identifier)
            out == IF lower \in VALID_PLATFORMS /\ fetched.kind = "return"
                   THEN IF st = "ok"
                        THEN [fetched EXCEPT !.cache =
                                 updateOne(fetched.cache, cacheKey,
                                     [data |-> fetched.payload, lastUpdated |-> now,
                                      expiresAt |-> now + TTL_6H])]
                        ELSE Thrown(fetched.cache, fetched.history, fetched.calls)
                   ELSE fetched
            status == IF lower \notin VALID_PLATFORMS THEN 400
                      ELSE IF out.kind = "throw" THEN 500 ELSE 200
        IN Commit(out, Observation("cacheRefreshPost", platform, identifier, companyName,
                                   force, a.up, st, cache, out, status, out.payload))

(* GET /api/cache/:companyName/:platform/:identifier *)
CacheGet ==
    /\ Idle
    /\ \E platform \in RequestPlatforms, identifier \in Identifiers, companyName \in Companies,
       up \in UpOutcomes, st \in StoreOutcomes :
        IF toLowerCase(platform) = "onchain"
        THEN LET cacheKey == FetcherKey("onchain", identifier)
                 cachedData == findOne(cache, cacheKey)
                 fresh == fetchOnchainData(cache, history, now, apiCalls, identifier,
                                           companyName, FALSE, up, st)
                 stored == [fresh EXCEPT !.cache =
                               updateOne(fresh.cache, cacheKey,
                                   [data |-> fresh.payload, lastUpdated |-> now,
                                    expiresAt |-> now + TTL_6H])]
                 hit == Returned(cache, history, 0, NoData)
             IN IF IsLive(cachedData, now)
                THEN Commit(hit, Observation("cacheGet", platform, identifier, companyName,
                         FALSE, up, st, cache, hit, 200,
                         Annotate(cachedData.data, "cache",
                             toISOString(IF Truthy(cachedData.lastUpdated)
                                         THEN cachedData.lastUpdated ELSE now))))
                ELSE IF fresh.kind = "return"
                THEN Commit(stored, Observation("cacheGet", platform, identifier, companyName,
                         FALSE, up, st, cache, stored, 200,
                         Annotate(fresh.payload, "api", toISOString(now))))
                ELSE Commit(fresh, Observation("cacheGet", platform, identifier, companyName,
                         FALSE, up, st, cache, fresh, 500, NoData))
        ELSE LET cacheKey == RouteKey(companyName, platform, identifier)
                 cachedData == findOne(cache, cacheKey)
                 none == Returned(cache, history, 0, NoData)
             IN IF IsLive(cachedData, now)
                THEN Commit(none, Observation("cacheGet", platform, identifier, companyName,
                         FALSE, up, st, cache, none, 200,
                         Annotate(cachedData.data, "cache",
                             toISOString(IF Truthy(cachedData.lastUpdated)
                                         THEN cachedData.lastUpdated ELSE now))))
                ELSE Commit(none, Observation("cacheGet", platform, identifier, companyName,
                         FALSE, up, st, cache, none, 404, NoData))

(* The OnchainMetrics object the direct route builds from the fetcher's payload:
   the fee figures, chart and profile of the payload, none of its envelope *)
OnchainMetricsOf(data) == [NoData EXCEPT !.shape = "onchainMetrics", !.ver = data.ver]

(* POST /api/direct/onchain/:identifier { companyName }; a body without
   companyName carries "" here and 'Unknown Company' is used *)
DirectOnchainPost ==
    /\ Idle
    /\ \E identifier \in Identifiers, body \in Companies \cup {""}, up \in UpOutcomes,
       st \in StoreOutcomes :
        LET companyName == IF body = "" THEN "Unknown Company" ELSE body
        IN \E out \in {fetchOnchainData(cache, history, now, apiCalls, identifier,
                                        companyName, FALSE, up, st)} :
             Commit(out, Observation("directOnchainPost", "onchain", identifier, companyName,
                                     FALSE, up, st, cache, out,
                                     IF out.kind = "throw" THEN 500 ELSE 200,
                                     IF out.kind = "throw" THEN NoData
                                     ELSE OnchainMetricsOf(out.payload)))

(* The answer of the last call has been delivered to its caller *)
Respond ==
    /\ last # NoCall
    /\ last' = NoCall
    /\ UNCHANGED <<now, cache, history, apiCalls, nCalls, refreshed, companies, sweep, pending, timers, refreshIntervals>>

(* The sweep starts: at the construction of the service and then each time the
   interval timer fires; its find of the companies may fail *)
StartSweep ==
    /\ sweep.pos = 0
    /\ sweep.runs < MaxSweeps
    /\ sweep.runs = 0 \/ now >= sweep.due
    /\ \E rd \in StoreOutcomes :
         sweep' = [pos |-> IF rd = "ok" /\ Len(companies) > 0 THEN 1 ELSE 0,
                   list |-> IF rd = "ok" THEN companies ELSE <<>>,
                   due |-> IF sweep.runs = 0 THEN now + REFRESH_INTERVAL
                           ELSE sweep.due + REFRESH_INTERVAL,
                   runs |-> sweep.runs + 1, found |-> rd = "ok",
                   attempted |-> {}, fetched |-> {}, failed |-> {},
                   raised |-> ReachesTimer(rd # "ok")]
    /\ UNCHANGED <<now, cache, history, apiCalls, nCalls, refreshed, last, companies, pending, timers, refreshIntervals>>

(* The sweep handles the company it is at *)
SweepCompany ==
    /\ sweep.pos > 0
    /\ LET company == sweep.list[sweep.pos]
           next == [sweep EXCEPT !.pos = AfterCompany(sweep.pos, Len(sweep.list), FALSE)]
       IN IF company.onchain = ""
          THEN /\ sweep' = next
               /\ UNCHANGED <<cache, history, apiCalls, companies, timers, refreshIntervals>>
          ELSE \E up \in UpOutcomes, st \in StoreOutcomes :
               \E r \in {refreshOnchainData(cache, history, companies, now, apiCalls,
                                            company.name, company.onchain, up, st)} :
                 /\ cache' = r.fetch.cache
                 /\ history' = r.fetch.history
                 /\ apiCalls' = apiCalls + r.fetch.calls
                 /\ companies' = r.docs
                 /\ sweep' = [sweep EXCEPT
                        !.pos = AfterCompany(sweep.pos, Len(sweep.list), r.threw),
                        !.attempted = @ \cup {sweep.pos},
                        !.fetched = IF r.fetch.calls > 0 THEN @ \cup {sweep.pos} ELSE @,
                        !.failed = IF r.threw THEN @ \cup {sweep.pos} ELSE @]
    /\ UNCHANGED <<now, nCalls, refreshed, last, pending, timers, refreshIntervals>>

(* A request refreshes the on-chain data of a swept identifier between sweeps *)
SweepRequest ==
    /\ sweep.pos = 0
    /\ sweep.runs > 0
    /\ now < sweep.due
    /\ nCalls < MaxOps
    /\ \E identifier \in SweepIdentifiers, up \in UpOutcomes :
       \E out \in {fetchOnchainData(cache, history, now, apiCalls, identifier, "AcmeCo",
                                    TRUE, up, "ok")} :
         /\ cache' = out.cache
         /\ history' = out.history
         /\ apiCalls' = apiCalls + out.calls
         /\ nCalls' = nCalls + 1
    /\ UNCHANGED <<now, refreshed, last, companies, sweep, pending, timers, refreshIntervals>>

(* Time passes while no sweep runs and none is due *)
SweepTick ==
    /\ sweep.pos = 0
    /\ sweep.runs > 0
    /\ now < sweep.due \/ sweep.runs = MaxSweeps
    /\ now + SweepTickHours <= MaxTime
    /\ now' = now + SweepTickHours
    /\ UNCHANGED <<cache, history, apiCalls, nCalls, refreshed, last, companies, sweep, pending, timers, refreshIntervals>>

SweepInit ==
    /\ now = StartTime
    /\ cache = [k \in CacheKeys |-> NoDoc]
    /\ history = <<>>
    /\ apiCalls = 0
    /\ nCalls = 0
    /\ refreshed = {}
    /\ last = NoCall
    /\ companies = CompanyDocs
    /\ sweep = NoSweep
    /\ pending = <<>>
    /\ timers = <<>>
    /\ refreshIntervals = <<>>

SweepNext ==
    \/ StartSweep
    \/ SweepCompany
    \/ SweepRequest
    \/ SweepTick

SweepSpec == SweepInit /\ [][SweepNext]_vars

-----------------------------------------------------------------------------
(* Twitter follower deltas: fetches of an identifier whose follower rows reach
   back ten days *)

DeltaNow == 10 * ONE_DAY + StartTime
DeltaOffsets == {10 * ONE_DAY, ONE_WEEK, 2 * ONE_DAY, ONE_DAY, 2 * ONE_HOUR}
DeltaPastCounts == {0, 100, 150}
DeltaCurrentCounts == {200}

DeltaRows ==
    [identifier : Identifiers, followers : DeltaPastCounts,
     timestamp : {DeltaNow - o : o \in DeltaOffsets}]

(* The rows earlier fetches left, oldest first *)
DeltaHistories ==
    {<<>>} \cup {<<r>> : r \in DeltaRows}
    \cup {p \in {<<r1, r2>> : r1 \in DeltaRows, r2 \in DeltaRows} :
              p[1].timestamp < p[2].timestamp}

(* The twitter:<id> entry the fetch that wrote the last row of h left *)
DeltaEntry(h) ==
    IF h = <<>> THEN NoDoc
    ELSE LET r == h[Len(h)]
         IN [present |-> TRUE,
             data |-> TwitterPayload(SubSeq(h, 1, Len(h) - 1), r.timestamp, 0, r.identifier,
                                     "AcmeCo", [follower_count |-> r.followers, tweets |-> 0],
                                     "ok"),
             lastUpdated |-> r.timestamp,
             expiresAt |-> r.timestamp + TTL_12H]

DeltaInit ==
    /\ now = DeltaNow
    /\ history \in DeltaHistories
    /\ cache = [k \in CacheKeys |->
                  IF k = FetcherKey("twitter", "acme") THEN DeltaEntry(history) ELSE NoDoc]
    /\ apiCalls = 0
    /\ nCalls = 0
    /\ refreshed = {}
    /\ last = NoCall
    /\ companies = <<>>
    /\ sweep = NoSweep
    /\ pending = <<>>
    /\ timers = <<>>
    /\ refreshIntervals = <<>>

(* A caller invokes fetchTwitterData *)
DeltaFetch ==
    /\ Idle
    /\ \E identifier \in Identifiers, force \in BOOLEAN, up \in UpOutcomes,
          followers \in DeltaCurrentCounts :
       \E out \in {fetchTwitterData(cache, history, now, apiCalls, identifier, "AcmeCo", force,
                                    up, [follower_count |-> followers, tweets |-> 0], "ok",
                                    "ok")} :
         Commit(out, Observation("fetch", "twitter", identifier, "AcmeCo", force, up, "ok",
                                 cache, out, 0, out.payload))

DeltaNext ==
    \/ DeltaFetch
    \/ Respond

DeltaSpec == DeltaInit /\ [][DeltaNext]_vars

-----------------------------------------------------------------------------
(* Two companies that share an identifier call the fetchers *)

SharingCompanies == {"AcmeCo", "BetaCo"}

CompanyFetch ==
    /\ Idle
    /\ \E platform \in {"twitter", "onchain", "medium"}, identifier \in Identifiers,
          companyName \in SharingCompanies, force \in BOOLEAN :
       \E a \in UpstreamAnswers(platform) :
       \E out \in {Fetcher(platform, cache, history, now, apiCalls, identifier,
                            companyName, force, a.up, a.resp, a.gem, "ok")} :
         Commit(out, Observation("fetch", platform, identifier, companyName, force, a.up,
                                 "ok", cache, out, 0, out.payload))

CompanyNext ==
    \/ CompanyFetch
    \/ Respond
    \/ Tick

CompanySpec == Init /\ [][CompanyNext]_vars

-----------------------------------------------------------------------------
(* Twitter engagement metrics.  A JavaScript number that a division produced
   is held as the fraction num / den; den = 0 is a value that is not finite:
   NaN (0 / 0) or Infinity (x / 0) *)

MaxPosts == 2

Zero == [num |-> 0, den |-> 1]
Ratio(a, b) ==
    IF b = 0 THEN [num |-> IF a = 0 THEN 0 ELSE 1, den |-> 0] ELSE [num |-> a, den |-> b]
Times(r, k) == IF r.den = 0 THEN r ELSE [num |-> r.num * k, den |-> r.den]
Over(r, k) ==
    IF r.den = 0 THEN r
    ELSE IF k = 0 THEN Ratio(r.num, 0)
    ELSE [num |-> r.num, den |-> r.den * k]
Plus(a, b) ==
    IF a.den = 0 \/ b.den = 0
    THEN [num |-> IF (a.den = 0 /\ a.num = 0) \/ (b.den = 0 /\ b.num = 0) THEN 0 ELSE 1,
          den |-> 0]
    ELSE [num |-> a.num * b.den + b.num * a.den, den |-> a.den * b.den]
Finite(r) == r.den # 0

(* x || 0 *)
OrZero(x) == IF Truthy(x) THEN x ELSE 0

(* tweets.reduce((sum, tweet) => sum + (tweet[field] || 0), 0) *)
RECURSIVE SumField(_, _)
SumField(tweets, field) ==
    IF tweets = <<>> THEN 0
    ELSE OrZero(Head(tweets)[field]) + SumField(Tail(tweets), field)

(* rates.reduce((sum, rate) => sum + rate, 0) *)
RECURSIVE SumRates(_)
SumRates(rates) == IF rates = <<>> THEN Zero ELSE Plus(Head(rates), SumRates(Tail(rates)))

(* tweets.filter(tweet => new Date(tweet.creation_date).getTime() >= since) *)
RECURSIVE PostedSince(_, _)
PostedSince(tweets, since) ==
    IF tweets = <<>> THEN <<>>
    ELSE IF Head(tweets).creation_date >= since
         THEN <<Head(tweets)>> \o PostedSince(Tail(tweets), since)
         ELSE PostedSince(Tail(tweets), since)

(* followerCount > 0 ? (engagements / followerCount) * 100 : 0 *)
RatePerFollowerUnguarded(engagements, followerCount) ==
    Times(Ratio(engagements, followerCount), 100)
RatePerFollower(engagements, followerCount) ==
    IF followerCount > 0 THEN Times(Ratio(engagements, followerCount), 100) ELSE Zero

PostEngagements(tweet) ==
    OrZero(tweet.favorite_count) + OrZero(tweet.retweet_count) + OrZero(tweet.reply_count)

(* The contentAnalysis metrics of the payload *)
EngagementMetrics(recentTweets, follower_count, t) ==
    LET totalLikes == SumField(recentTweets, "favorite_count")
        totalRetweets == SumField(recentTweets, "retweet_count")
        totalReplies == SumField(recentTweets, "reply_count")
        followerCount == OrZero(follower_count)
        avgEngagementRate ==
            IF Len(recentTweets) > 0 /\ followerCount > 0
            THEN Times(Ratio(totalLikes + totalRetweets + totalReplies,
                             followerCount * Len(recentTweets)), 100)
            ELSE Zero
        tweetsLast7Days == PostedSince(recentTweets, t - ONE_WEEK)
        engagementRatesPerPost ==
            [i \in 1..Len(recentTweets) |->
                RatePerFollower(PostEngagements(recentTweets[i]), followerCount)]
        avgEngagementRatePerPost ==
            IF Len(engagementRatesPerPost) > 0
            THEN Over(SumRates(engagementRatesPerPost), Len(engagementRatesPerPost))
            ELSE Zero
        last24hTweets == PostedSince(recentTweets, t - ONE_DAY)
        likes24h == SumField(last24hTweets, "favorite_count")
        shares24h == SumField(last24hTweets, "retweet_count")
        replies24h == SumField(last24hTweets, "reply_count")
        dailyEngagementRate == RatePerFollower(likes24h + shares24h + replies24h, followerCount)
    IN [avgEngagementRate |-> avgEngagementRate,
        engagementRatePerPost |-> avgEngagementRatePerPost,
        dailyEngagementRate |-> dailyEngagementRate,
        totalLikes |-> totalLikes, totalShares |-> totalRetweets,
        totalReplies |-> totalReplies,
        recentTweetsCount |-> Len(recentTweets),
        likes24h |-> likes24h, shares24h |-> shares24h, replies24h |-> replies24h,
        tweetFrequency7d |-> Len(tweetsLast7Days),
        replyFrequency7d |-> SumField(tweetsLast7Days, "reply_count")]

(* The posts of an upstream answer: a missing counter is undefined *)
Tweets ==
    [favorite_count : {0, 5}, retweet_count : {Absent, 2}, reply_count : {0, 1},
     creation_date : {StartTime - 2 * ONE_HOUR, StartTime - 3 * ONE_DAY}]
TweetLists == UNION {[1..n -> Tweets] : n \in 0..MaxPosts}
ProfileFollowerCounts == {Absent, 0, 100}

(* A forced fetchTwitterData whose upstream requests succeed; the observation
   keeps the posts received and the metrics of the payload *)
EngagementFetch ==
    /\ Idle
    /\ \E identifier \in Identifiers, recentTweets \in TweetLists,
          follower_count \in ProfileFollowerCounts, gem \in SummaryOutcomes :
       \E out \in {fetchTwitterData(cache, history, now, apiCalls, identifier, "AcmeCo", TRUE,
                                    "ok", [follower_count |-> OrZero(follower_count),
                                           tweets |-> Len(recentTweets)], gem, "ok")} :
         Commit(out, Observation("fetch", "twitter", identifier, "AcmeCo", TRUE, "ok", "ok",
                                 cache, out, 0, out.payload)
                     @@ [recentTweets |-> recentTweets, follower_count |-> follower_count,
                         metrics |-> EngagementMetrics(recentTweets, follower_count, now)])

EngagementNext ==
    \/ EngagementFetch
    \/ Respond

EngagementSpec == Init /\ [][EngagementNext]_vars

-----------------------------------------------------------------------------
(* On-chain fee metrics *)

MaxChart == 2

(* previous === 0 ? 0 : ((current - previous) / previous) * 100 *)
calculateGrowthUnguarded(current, previous) ==
    Times(Ratio(current - previous, previous), 100)
calculateGrowth(current, previous) ==
    IF previous = 0 THEN Zero ELSE Times(Ratio(current - previous, previous), 100)

(* array.slice(-n) *)
LastN(seq, n) == IF Len(seq) <= n THEN seq ELSE SubSeq(seq, Len(seq) - n + 1, Len(seq))

(* recentActivity[recentActivity.length - k]?.value, undefined out of range *)
ValueFromEnd(recentActivity, k) ==
    IF Len(recentActivity) >= k THEN recentActivity[Len(recentActivity) - k + 1] ELSE Absent

RECURSIVE SumValues(_)
SumValues(values) ==
    IF values = <<>> THEN 0 ELSE OrZero(Head(values)) + SumValues(Tail(values))

(* The fee metrics computed from the fees answer *)
OnchainFees(feesData) ==
    LET recentActivity ==
            [i \in 1..Len(LastN(feesData.totalDataChart, 30)) |->
                OrZero(LastN(feesData.totalDataChart, 30)[i])]
        dailyFees ==
            IF Truthy(feesData.total24h) THEN feesData.total24h
            ELSE OrZero(ValueFromEnd(recentActivity, 1))
        previousDayFees ==
            IF Truthy(feesData.total48hto24h) THEN feesData.total48hto24h
            ELSE OrZero(ValueFromEnd(recentActivity, 2))
        weeklyFees ==
            IF Truthy(feesData.total7d) THEN feesData.total7d
            ELSE SumValues(LastN(recentActivity, 7))
        dailyChangePercent == calculateGrowth(dailyFees, previousDayFees)
    IN [dailyFees |-> dailyFees, previousDayFees |-> previousDayFees,
        weeklyFees |-> weeklyFees, dailyChangePercent |-> dailyChangePercent,
        total24h |-> dailyFees, total48hto24h |-> previousDayFees, total7d |-> weeklyFees,
        change_1d |-> IF Truthy(feesData.change_1d) THEN Ratio(feesData.change_1d, 1)
                      ELSE dailyChangePercent,
        recentTweetsCount |-> Len(recentActivity)]

(* if (!feesData || !feesData.totalDataChart) throw: the fetch goes on only
   with a fees answer that has its daily series *)
FeesOutcome(feesData) == IF feesData.hasTotalDataChart THEN "ok" ELSE "fail"

(* The fees answers of the upstream: the totals it may report and its daily
   series, a value of which may be null *)
FeeCharts == UNION {[1..n -> {Absent, 0, 800, 1000}] : n \in 0..MaxChart}
FeesResponses ==
    {[total24h |-> a, total48hto24h |-> b, total7d |-> w, change_1d |-> d,
      hasTotalDataChart |-> TRUE, totalDataChart |-> ch] :
        a \in {Absent, 900}, b \in {Absent, 0, 700}, w \in {Absent, 5000},
        d \in {Absent, 5}, ch \in FeeCharts}
    \cup {[total24h |-> a, total48hto24h |-> Absent, total7d |-> Absent, change_1d |-> Absent,
           hasTotalDataChart |-> FALSE, totalDataChart |-> <<>>] : a \in {Absent, 900}}

(* A fetchOnchainData whose protocol request succeeds and whose fees request is
   answered with feesData; the observation keeps the answer and the metrics *)
FeesFetch ==
    /\ Idle
    /\ \E identifier \in Identifiers, feesData \in FeesResponses, force \in BOOLEAN :
       \E out \in {fetchOnchainData(cache, history, now, apiCalls, identifier, "AcmeCo", force,
                                    FeesOutcome(feesData), "ok")} :
         Commit(out, Observation("fetch", "onchain", identifier, "AcmeCo", force,
                                 FeesOutcome(feesData), "ok", cache, out, 0, out.payload)
                     @@ [feesData |-> feesData, fees |-> OnchainFees(feesData)])

FeesNext ==
    \/ FeesFetch
    \/ Respond
    \/ Tick

FeesSpec == Init /\ [][FeesNext]_vars

-----------------------------------------------------------------------------
(* Two runs of a fetcher on the same raw upstream answer and the same store,
   the second one `later` hours after the first; the store keeps the effect of
   the first, the observation keeps both payloads *)

LaterHours == {0, 1, TickHours}

TwoFetches ==
    /\ Idle
    /\ \E platform \in {"twitter", "onchain", "linkedin"}, identifier \in Identifiers,
          later \in LaterHours :
       \E a \in {x \in UpstreamAnswers(platform) : x.up = "ok"} :
       \E out \in {Fetcher(platform, cache, history, now, apiCalls, identifier,
                            "AcmeCo", TRUE, a.up, a.resp, a.gem, "ok")},
          again \in {Fetcher(platform, cache, history, now + later, apiCalls, identifier,
                              "AcmeCo", TRUE, a.up, a.resp, a.gem, "ok")} :
         Commit(out, Observation("fetch", platform, identifier, "AcmeCo", TRUE, a.up,
                                 "ok", cache, out, 0, out.payload)
                     @@ [later |-> later, again |-> again.payload])

TwoFetchesNext ==
    \/ TwoFetches
    \/ Respond
    \/ Tick

TwoFetchesSpec == Init /\ [][TwoFetchesNext]_vars

-----------------------------------------------------------------------------
(* The follower rows of Twitter: fetches that find rows written up to an hour,
   a few hours and a day ago, of the identifier fetched and of another one *)

MaxHistoryTicks == 2
HistoryStart == ONE_DAY + 2 * ONE_HOUR
HistoryOffsets == {ONE_HOUR, 3 * ONE_HOUR, ONE_DAY + ONE_HOUR}
HistoryCounts == {100, 150}

HistoryRows ==
    [identifier : SweepIdentifiers, followers : HistoryCounts,
     timestamp : {HistoryStart - o : o \in HistoryOffsets}]

(* The rows earlier fetches left, in the order of their insertion: a row is
   inserted only when the identifier has no row of the last hour *)
HistoryLogs ==
    {<<>>} \cup {<<r>> : r \in HistoryRows}
    \cup {p \in {<<r1, r2>> : r1 \in HistoryRows, r2 \in HistoryRows} :
              p[1].timestamp < p[2].timestamp}

HistoryInit ==
    /\ now = HistoryStart
    /\ history \in HistoryLogs
    /\ cache = [k \in CacheKeys |->
                  IF k = FetcherKey("twitter", "acme")
                  THEN DeltaEntry(SelectSeq(history, LAMBDA r : r.identifier = "acme"))
                  ELSE NoDoc]
    /\ apiCalls = 0
    /\ nCalls = 0
    /\ refreshed = {}
    /\ last = NoCall
    /\ companies = <<>>
    /\ sweep = NoSweep
    /\ pending = <<>>
    /\ timers = <<>>
    /\ refreshIntervals = <<>>

(* A caller invokes fetchTwitterData; the clock has advanced since the last
   row was written *)
HistoryFetch ==
    /\ Idle
    /\ \A i \in 1..Len(history) : history[i].timestamp < now
    /\ \E identifier \in Identifiers, force \in BOOLEAN, up \in UpOutcomes,
          followers \in HistoryCounts, st \in StoreOutcomes :
       \E out \in {fetchTwitterData(cache, history, now, apiCalls, identifier, "AcmeCo", force,
                                    up, [follower_count |-> followers, tweets |-> 0], "ok",
                                    st)} :
         Commit(out, Observation("fetch", "twitter", identifier, "AcmeCo", force, up, st,
                                 cache, out, 0, out.payload))

HistoryTick ==
    /\ last = NoCall
    /\ now < HistoryStart + MaxHistoryTicks
    /\ now' = now + ONE_HOUR
    /\ UNCHANGED <<cache, history, apiCalls, nCalls, refreshed, last, companies, sweep, pending, timers, refreshIntervals>>

HistoryNext ==
    \/ HistoryFetch
    \/ Respond
    \/ HistoryTick

HistorySpec == HistoryInit /\ [][HistoryNext]_vars

-----------------------------------------------------------------------------
(* The legacy-key clean-up: on-chain fetches of two identifiers, each of which
   may have a legacy row, next to Twitter fetches *)

(* The identifiers of the on-chain requests: the path parameter is any text *)
CleanupIdentifiers == SweepIdentifiers \cup {".*"}

CleanupInit ==
    /\ now = StartTime
    /\ \E legacy \in [SweepIdentifiers -> {NoDoc, LegacyDoc}] :
          cache = [k \in CacheKeys |->
                     IF \E i \in SweepIdentifiers : k = LegacyKey(i)
                     THEN legacy[k[2]] ELSE NoDoc]
    /\ history = <<>>
    /\ apiCalls = 0
    /\ nCalls = 0
    /\ refreshed = {}
    /\ last = NoCall
    /\ companies = <<>>
    /\ sweep = NoSweep
    /\ pending = <<>>
    /\ timers = <<>>
    /\ refreshIntervals = <<>>

CleanupFetch ==
    /\ Idle
    /\ \E platform \in {"onchain", "twitter"}, force \in BOOLEAN, st \in StoreOutcomes :
       \E identifier \in IF platform = "onchain" THEN CleanupIdentifiers ELSE Identifiers :
       \E a \in UpstreamAnswers(platform) :
       \E out \in {Fetcher(platform, cache, history, now, apiCalls, identifier,
                            "AcmeCo", force, a.up, a.resp, a.gem, st)} :
         Commit(out, Observation("fetch", platform, identifier, "AcmeCo", force, a.up,
                                 st, cache, out, 0, out.payload)
                     @@ [preCache |-> cache])

CleanupNext ==
    \/ CleanupFetch
    \/ Respond
    \/ Tick

CleanupSpec == CleanupInit /\ [][CleanupNext]_vars

-----------------------------------------------------------------------------
(* Upstream answers that lack expected fields *)

(* The answer of get-company-details: { data: details } or an object without
   data, of which details.id is then read *)
LinkedInDetails ==
    {[hasData |-> TRUE, resp |-> r] : r \in TwitterResponses}
    \cup {[hasData |-> FALSE, resp |-> NoResponse]}

(* const details = detailsRes.data.data; ... companyId: details.id: reading a
   property of undefined throws a TypeError into the catch block *)
DetailsOutcome(detailsRes) == IF detailsRes.hasData THEN "ok" ELSE "fail"

(* A fetchLinkedInData whose requests are answered, the first with detailsRes *)
DetailsFetch ==
    /\ Idle
    /\ \E username \in Identifiers, detailsRes \in LinkedInDetails, force \in BOOLEAN :
       \E out \in {fetchLinkedInData(cache, history, now, apiCalls, username, "AcmeCo", force,
                                     DetailsOutcome(detailsRes), detailsRes.resp, "ok")} :
         Commit(out, Observation("fetch", "linkedin", username, "AcmeCo", force,
                                 DetailsOutcome(detailsRes), "ok", cache, out, 0, out.payload)
                     @@ [details |-> detailsRes])

PartialNext ==
    \/ FeesFetch
    \/ DetailsFetch
    \/ Respond
    \/ Tick

PartialSpec == Init /\ [][PartialNext]_vars

-----------------------------------------------------------------------------
(* The summary of the Twitter posts *)

SUMMARY_POSTS == 20
TWEET_LIMIT == 40

(* recentTweets.slice(0, 20).map(tweet => tweet.text); a post is held as its
   position in the upstream answer *)
postsForSummaryUnsliced(recentTweets) == recentTweets
postsForSummary(recentTweets) ==
    SubSeq(recentTweets, 1, IF Len(recentTweets) < SUMMARY_POSTS
                            THEN Len(recentTweets) ELSE SUMMARY_POSTS)

(* The calls of getGeminiSummary a fetch makes once it has written the follower
   row, each held as its argument *)
SummaryRequests(recentTweets) ==
    IF Len(postsForSummary(recentTweets)) > 0 THEN <<postsForSummary(recentTweets)>> ELSE <<>>

SummaryPostCounts == {0, 1, SUMMARY_POSTS, SUMMARY_POSTS + 1, TWEET_LIMIT}

(* A fetchTwitterData that gets n posts; the observation keeps the calls of the
   summary generator and the store the same call leaves when the generator
   succeeds *)
SummaryFetch ==
    /\ Idle
    /\ \E identifier \in Identifiers, force \in BOOLEAN, up \in UpOutcomes,
          n \in SummaryPostCounts, gem \in SummaryOutcomes, st \in StoreOutcomes :
       \E out \in {fetchTwitterData(cache, history, now, apiCalls, identifier, "AcmeCo", force,
                                    up, [follower_count |-> 100, tweets |-> n], gem, st)},
          summarized \in {fetchTwitterData(cache, history, now, apiCalls, identifier,
                                           "AcmeCo", force, up,
                                           [follower_count |-> 100, tweets |-> n], "ok", st)} :
         Commit(out, Observation("fetch", "twitter", identifier, "AcmeCo", force, up, st,
                                 cache, out, 0, out.payload)
                     @@ [recentTweets |-> [i \in 1..n |-> i], gem |-> gem,
                         summaryRequests |->
                             IF out.kind = "return" /\ out.payload.source = "api"
                             THEN SummaryRequests([i \in 1..n |-> i]) ELSE <<>>,
                         summarized |-> [cache |-> summarized.cache,
                                         history |-> summarized.history]])

SummaryNext ==
    \/ SummaryFetch
    \/ Respond
    \/ Tick

SummarySpec == Init /\ [][SummaryNext]_vars

-----------------------------------------------------------------------------
(* The follower history of LinkedIn: fetches and refresh requests of an
   identifier whose entry holds points of up to 31 days ago *)

MaxLinkedInTicks == 1
LinkedInNow == 31 * ONE_DAY + StartTime
LinkedInOffsets == {31 * ONE_DAY, THIRTY_DAYS, 2 * ONE_DAY, ONE_DAY, ONE_HOUR}
LinkedInPastCounts == {0, 100}
LinkedInCurrentCounts == {100, 150}

LinkedInPoints ==
    [count : LinkedInPastCounts, timestamp : {LinkedInNow - o : o \in LinkedInOffsets}]

(* The points earlier fetches pushed, in the order of the fetches *)
LinkedInHistories ==
    {<<>>} \cup {<<q>> : q \in LinkedInPoints}
    \cup {p \in {<<q1, q2>> : q1 \in LinkedInPoints, q2 \in LinkedInPoints} :
              p[1].timestamp < p[2].timestamp}

(* The linkedin:<id> entry the fetch that pushed the last point of fh left *)
LinkedInEntry(fh) ==
    IF fh = <<>> THEN NoDoc
    ELSE LET q == fh[Len(fh)]
             prior == [NoDoc EXCEPT !.data.followersHistory = SubSeq(fh, 1, Len(fh) - 1)]
         IN [present |-> TRUE,
             data |-> LinkedInResult(prior, q.timestamp, 0,
                                     [follower_count |-> q.count, tweets |-> 0]),
             lastUpdated |-> q.timestamp,
             expiresAt |-> q.timestamp + TTL_6H]

LinkedInInit ==
    /\ now = LinkedInNow
    /\ \E fh \in LinkedInHistories :
          cache = [k \in CacheKeys |->
                     IF k = FetcherKey("linkedin", "acme") THEN LinkedInEntry(fh) ELSE NoDoc]
    /\ history = <<>>
    /\ apiCalls = 0
    /\ nCalls = 0
    /\ refreshed = {}
    /\ last = NoCall
    /\ companies = <<>>
    /\ sweep = NoSweep
    /\ pending = <<>>
    /\ timers = <<>>
    /\ refreshIntervals = <<>>

(* A caller invokes fetchLinkedInData *)
LinkedInFetch ==
    /\ Idle
    /\ \E username \in Identifiers, force \in BOOLEAN, up \in UpOutcomes,
          followers \in LinkedInCurrentCounts :
       \E out \in {fetchLinkedInData(cache, history, now, apiCalls, username, "AcmeCo", force,
                                     up, [follower_count |-> followers, tweets |-> 0], "ok")} :
         Commit(out, Observation("fetch", "linkedin", username, "AcmeCo", force, up, "ok",
                                 cache, out, 0, out.payload))

LinkedInTick ==
    /\ last = NoCall
    /\ now < LinkedInNow + MaxLinkedInTicks * ONE_DAY
    /\ now' = now + ONE_DAY
    /\ UNCHANGED <<cache, history, apiCalls, nCalls, refreshed, last, companies, sweep, pending, timers, refreshIntervals>>

LinkedInNext ==
    \/ LinkedInFetch
    \/ CacheRefreshPost
    \/ Respond
    \/ LinkedInTick

LinkedInSpec == LinkedInInit /\ [][LinkedInNext]_vars

-----------------------------------------------------------------------------
(* Twitter fetches repeated over more than a day, the first one at StartTime *)

FrequentHours == 25
MaxRows == 2

FirstRow == [identifier |-> "acme", followers |-> 100, timestamp |-> StartTime]

FrequentInit ==
    /\ now = StartTime
    /\ history = <<FirstRow>>
    /\ cache = [k \in CacheKeys |->
                  IF k = FetcherKey("twitter", "acme") THEN DeltaEntry(history) ELSE NoDoc]
    /\ apiCalls = 1
    /\ nCalls = 0
    /\ refreshed = {}
    /\ last = NoCall
    /\ companies = <<>>
    /\ sweep = NoSweep
    /\ pending = <<>>
    /\ timers = <<>>
    /\ refreshIntervals = <<>>

(* A forced fetchTwitterData that succeeds; the clock has advanced since the
   last row was written *)
FrequentFetch ==
    /\ last = NoCall
    /\ \A i \in 1..Len(history) : history[i].timestamp < now
    /\ \E out \in {fetchTwitterData(cache, history, now, apiCalls, "acme", "AcmeCo", TRUE,
                                    "ok", [follower_count |-> 150, tweets |-> 0], "ok", "ok")} :
         /\ Len(out.history) <= MaxRows
         /\ cache' = out.cache
         /\ history' = out.history
         /\ apiCalls' = apiCalls + out.calls
         /\ last' = Observation("fetch", "twitter", "acme", "AcmeCo", TRUE, "ok", "ok",
                                cache, out, 0, out.payload)
         /\ UNCHANGED <<now, nCalls, refreshed, companies, sweep, pending, timers, refreshIntervals>>

FrequentTick ==
    /\ last = NoCall
    /\ now < StartTime + FrequentHours
    /\ now' = now + ONE_HOUR
    /\ UNCHANGED <<cache, history, apiCalls, nCalls, refreshed, last, companies, sweep, pending, timers, refreshIntervals>>

FrequentNext ==
    \/ FrequentFetch
    \/ Respond
    \/ FrequentTick

FrequentSpec == FrequentInit /\ [][FrequentNext]_vars

-----------------------------------------------------------------------------
(* Twitter fetches that run concurrently: a call gives up control at each
   await, here before the update of the follower row, before the insert that
   follows an update that modified nothing, and before the write of the entry *)

MaxPending == 2

Without(seq, i) == SubSeq(seq, 1, i - 1) \o SubSeq(seq, i + 1, Len(seq))

(* The upstream requests of a forced fetch have been answered, now = Date.now()
   is taken and the payload is computed from the rows read at that time *)
BeginFetch ==
    /\ nCalls < MaxOps
    /\ Len(pending) < MaxPending
    /\ \E identifier \in Identifiers, followers \in HistoryCounts :
         pending' = Append(pending, [pc |-> "update", identifier |-> identifier,
                                     followers |-> followers, t |-> now,
                                     data |-> TwitterPayload(history, now, apiCalls + 1,
                                                  identifier, "AcmeCo",
                                                  [follower_count |-> followers,
                                                   tweets |-> 0], "ok")])
    /\ apiCalls' = apiCalls + 1
    /\ nCalls' = nCalls + 1
    /\ UNCHANGED <<now, cache, history, refreshed, last, companies, sweep, timers, refreshIntervals>>

(* await mongoService.updateOne('cache', { key, timestamp: { $gte: lastHour } }, row) *)
UpdateRow ==
    \E i \in 1..Len(pending) :
       LET call == pending[i]
           row == [identifier |-> call.identifier, followers |-> call.followers,
                   timestamp |-> call.t]
           idx == RecentRow(history, call.identifier, call.t - ONE_HOUR)
           updateResult == idx # 0 /\ history[idx] # row
       IN /\ call.pc = "update"
          /\ history' = IF idx # 0 THEN [history EXCEPT ![idx] = row] ELSE history
          /\ pending' = [pending EXCEPT ![i].pc = IF updateResult THEN "store" ELSE "insert"]
          /\ UNCHANGED <<now, cache, apiCalls, nCalls, refreshed, last, companies, sweep, timers, refreshIntervals>>

(* if (updateResult === false) await mongoService.insertOne('cache', row) *)
InsertRow ==
    \E i \in 1..Len(pending) :
       LET call == pending[i]
       IN /\ call.pc = "insert"
          /\ history' = Append(history, [identifier |-> call.identifier,
                                         followers |-> call.followers,
                                         timestamp |-> call.t])
          /\ pending' = [pending EXCEPT ![i].pc = "store"]
          /\ UNCHANGED <<now, cache, apiCalls, nCalls, refreshed, last, companies, sweep, timers, refreshIntervals>>

(* await mongoService.updateOne('cache', { key: cacheKey }, entry, { upsert }); return data *)
StoreEntry ==
    \E i \in 1..Len(pending) :
       LET call == pending[i]
       IN /\ call.pc = "store"
          /\ cache' = updateOne(cache, FetcherKey("twitter", call.identifier),
                                [data |-> call.data, lastUpdated |-> call.t,
                                 expiresAt |-> call.t + TTL_12H])
          /\ pending' = Without(pending, i)
          /\ UNCHANGED <<now, history, apiCalls, nCalls, refreshed, last, companies, sweep, timers, refreshIntervals>>

HourTick ==
    /\ now + ONE_HOUR <= MaxTime
    /\ now' = now + ONE_HOUR
    /\ UNCHANGED <<cache, history, apiCalls, nCalls, refreshed, last, companies, sweep, pending, timers, refreshIntervals>>

ConcurrentNext ==
    \/ BeginFetch
    \/ UpdateRow
    \/ InsertRow
    \/ StoreEntry
    \/ HourTick

ConcurrentSpec == Init /\ [][ConcurrentNext]_vars

-----------------------------------------------------------------------------
(* The Twitter router *)

(* GET /metrics/:companyName/:identifier?forceRefresh=... *)
TwitterMetricsGet ==
    /\ Idle
    /\ \E identifier \in Identifiers, companyName \in Companies, forceRefresh \in BOOLEAN :
      \E a \in UpstreamAnswers("twitter"), st \in StoreOutcomes :
      \E out \in {fetchTwitterData(cache, history, now, apiCalls, identifier, companyName,
                                    forceRefresh, a.up, a.resp, a.gem, st)} :
        Commit(out, Observation("twitterMetricsGet", "twitter", identifier, companyName,
                                forceRefresh, a.up, st, cache, out,
                                IF out.kind = "throw" THEN 500 ELSE 200, out.payload))

(* GET /history/:identifier: findOne('cache', { key: `twitter_history:${identifier}` }),
   an empty list when there is no such document, else the document's data *)
TwitterHistoryGet ==
    /\ Idle
    /\ \E identifier \in Identifiers :
         LET historicalData == findOne(cache, HistoricalKey(identifier))
             out == Returned(cache, history, 0, NoData)
         IN Commit(out, Observation("twitterHistoryGet", "twitter", identifier, "",
                                    FALSE, "none", "ok", cache, out, 200, NoData)
                        @@ [points |-> IF historicalData.present
                                       THEN historicalData.data ELSE <<>>])

TwitterRouterNext ==
    \/ TwitterMetricsGet
    \/ TwitterHistoryGet
    \/ Respond
    \/ Tick

TwitterRouterSpec == Init /\ [][TwitterRouterNext]_vars

-----------------------------------------------------------------------------
(* Fetchers and the refresh route writing the same entry, from a store that
   already holds the on-chain entry of an earlier request at StartTime *)

(* The entry fetchOnchainData leaves after a fetch at t *)
FetcherEntry(t) ==
    [present |-> TRUE, data |-> OnchainPayload(t, 1, "acme", "AcmeCo"),
     lastUpdated |-> Absent, expiresAt |-> t + TTL_6H]

(* The entry POST /:companyName/:platform/:identifier/refresh leaves after it *)
RouteEntry(t) ==
    [present |-> TRUE, data |-> OnchainPayload(t, 1, "acme", "AcmeCo"),
     lastUpdated |-> t, expiresAt |-> t + TTL_6H]

StampInit ==
    /\ now = StartTime
    /\ \E entry \in {FetcherEntry(StartTime), RouteEntry(StartTime)} :
          cache = [k \in CacheKeys |->
                     IF k = FetcherKey("onchain", "acme") THEN entry ELSE NoDoc]
    /\ history = <<>>
    /\ apiCalls = 1
    /\ nCalls = 0
    /\ refreshed = {}
    /\ last = NoCall
    /\ companies = <<>>
    /\ sweep = NoSweep
    /\ pending = <<>>
    /\ timers = <<>>
    /\ refreshIntervals = <<>>

StampNext ==
    \/ CallFetcher
    \/ CacheRefreshPost
    \/ Respond
    \/ Tick

StampSpec == StampInit /\ [][StampNext]_vars

-----------------------------------------------------------------------------
(* CacheService.refreshData, its timers and setCachedData, with the calls
   interleaved at their awaits.  A company document here is its name and its
   socialMedia object, platform -> { identifier, data (the fetch ticket),
   lastUpdated } *)

MaxServiceOps == 3
MaxFires == 1

ServicePlatforms == {"twitter", "linkedin"}

NoTimer == 0

(* `${companyName}/${platform}/${identifier}` *)
IntervalKeys == {RouteKey("AcmeCo", p, "acme") : p \in ServicePlatforms}

MapSet(m, k, v) == [x \in DOMAIN m \cup {k} |-> IF x = k THEN v ELSE m[x]]
MapDelete(m, k) == [x \in DOMAIN m \ {k} |-> m[x]]

(* findOne('companies', { name }): the index of the first document of the name, 0 if none *)
FindCompany(docs, name) ==
    IF \E i \in 1..Len(docs) : docs[i].name = name
    THEN CHOOSE i \in 1..Len(docs) :
            docs[i].name = name /\ \A j \in 1..(i - 1) : docs[j].name # name
    ELSE 0

(* clearInterval(interval) *)
clearInterval(ts, id) == [ts EXCEPT ![id].active = FALSE]

(* clearRefreshInterval: the timer recorded under the key, if any, is cleared
   and its record deleted *)
clearRefreshInterval(ts, m, key) ==
    IF key \in DOMAIN m
    THEN [timers |-> clearInterval(ts, m[key]), refreshIntervals |-> MapDelete(m, key)]
    ELSE [timers |-> ts, refreshIntervals |-> m]

(* The service as constructed: no company stored, no timer set *)
ServiceInit ==
    /\ now = StartTime
    /\ cache = [k \in CacheKeys |-> NoDoc]
    /\ history = <<>>
    /\ apiCalls = 0
    /\ nCalls = 0
    /\ refreshed = {}
    /\ last = NoCall
    /\ companies = <<>>
    /\ sweep = NoSweep
    /\ pending = <<>>
    /\ timers = <<>>
    /\ refreshIntervals = <<>>

(* refreshData up to its first await: the timer of the key is cleared and the
   initial fetch is started *)
RefreshDataCall ==
    /\ nCalls < MaxServiceOps
    /\ Len(pending) < MaxPending
    /\ \E key \in IntervalKeys :
         LET cleared == clearRefreshInterval(timers, refreshIntervals, key)
         IN /\ timers' = cleared.timers
            /\ refreshIntervals' = cleared.refreshIntervals
            /\ pending' = Append(pending, [op |-> "refreshData", pc |-> "fetch", key |-> key,
                                           timer |-> NoTimer, ver |-> 0,
                                           found |-> FALSE, socialMedia |-> <<>>])
    /\ nCalls' = nCalls + 1
    /\ UNCHANGED <<now, cache, history, apiCalls, refreshed, last, companies, sweep>>

(* A caller clears the timer of a key *)
ClearRefreshIntervalCall ==
    /\ nCalls < MaxServiceOps
    /\ \E key \in IntervalKeys :
         LET cleared == clearRefreshInterval(timers, refreshIntervals, key)
         IN /\ timers' = cleared.timers
            /\ refreshIntervals' = cleared.refreshIntervals
    /\ nCalls' = nCalls + 1
    /\ UNCHANGED <<now, cache, history, apiCalls, refreshed, last, companies, sweep, pending>>

(* An active timer is due: its callback starts its fetch *)
TimerFires ==
    /\ Len(pending) < MaxPending
    /\ \E id \in 1..Len(timers) :
         /\ timers[id].active
         /\ timers[id].fired < MaxFires
         /\ now >= timers[id].due
         /\ timers' = [timers EXCEPT ![id].due = @ + REFRESH_INTERVAL, ![id].fired = @ + 1]
         /\ pending' = Append(pending, [op |-> "timer", pc |-> "fetch", key |-> timers[id].key,
                                        timer |-> id, ver |-> 0,
                                        found |-> FALSE, socialMedia |-> <<>>])
    /\ UNCHANGED <<now, cache, history, apiCalls, nCalls, refreshed, last, companies, sweep,
                   refreshIntervals>>

(* await fetchFunction(): it resolves with data or rejects; a rejection ends the
   call (refreshData rethrows it, the timer callback logs it) *)
FetchSettles ==
    \E i \in 1..Len(pending), up \in UpOutcomes :
       /\ pending[i].pc = "fetch"
       /\ pending' = IF up = "ok"
                     THEN [pending EXCEPT ![i].pc = "find", ![i].ver = apiCalls + 1]
                     ELSE Without(pending, i)
       /\ apiCalls' = apiCalls + 1
       /\ UNCHANGED <<now, cache, history, nCalls, refreshed, last, companies, sweep,
                      timers, refreshIntervals>>

(* setCachedData: await findOne('companies', { name: companyName }) *)
CompanyFound ==
    \E i \in 1..Len(pending), st \in StoreOutcomes :
       LET idx == FindCompany(companies, pending[i].key[1])
       IN /\ pending[i].pc = "find"
          /\ pending' = IF st = "ok"
                        THEN [pending EXCEPT ![i].pc = "write", ![i].found = idx # 0,
                                  ![i].socialMedia = IF idx # 0 THEN companies[idx].socialMedia
                                                     ELSE <<>>]
                        ELSE Without(pending, i)
          /\ UNCHANGED <<now, cache, history, apiCalls, nCalls, refreshed, last, companies,
                         sweep, timers, refreshIntervals>>

(* setCachedData: the updateOne of the company found, whose $set replaces
   socialMedia by the object read before with the platform's field put in, or
   the insertOne of a new company; then refreshData sets its interval timer and
   records it under the key *)
WriteReplacing(docs, call, entry) ==
    LET idx == FindCompany(docs, call.key[1])
    IN IF call.found
       THEN [docs EXCEPT ![idx].socialMedia = MapSet(call.socialMedia, call.key[2], entry)]
       ELSE Append(docs, [name |-> call.key[1],
                          socialMedia |-> MapSet(<<>>, call.key[2], entry)])

CompanyWritten ==
    \E i \in 1..Len(pending) :
       LET call == pending[i]
           entry == [identifier |-> call.key[3], ver |-> call.ver, lastUpdated |-> now]
           docs == WriteReplacing(companies, call, entry)
           idx == FindCompany(companies, call.key[1])
           before == IF idx = 0 THEN <<>> ELSE companies[idx].socialMedia
           after == docs[FindCompany(docs, call.key[1])].socialMedia
       IN /\ call.pc = "write"
          /\ companies' = docs
          /\ pending' = Without(pending, i)
          /\ IF call.op = "refreshData"
             THEN /\ timers' = Append(timers, [key |-> call.key, active |-> TRUE,
                                               due |-> now + REFRESH_INTERVAL, fired |-> 0])
                  /\ refreshIntervals' = MapSet(refreshIntervals, call.key, Len(timers) + 1)
             ELSE UNCHANGED <<timers, refreshIntervals>>
          /\ last' = [NoCall EXCEPT !.op = "setCachedData", !.platform = call.key[2],
                                    !.companyName = call.key[1], !.identifier = call.key[3],
                                    !.t = now]
                     @@ [timer |-> call.timer,
                         timerActive |-> call.timer # NoTimer /\ timers[call.timer].active,
                         lost |-> {p \in DOMAIN before \ {call.key[2]} :
                                      p \notin DOMAIN after \/ after[p] # before[p]}]
          /\ UNCHANGED <<now, cache, history, apiCalls, nCalls, refreshed, sweep>>

ServiceTick ==
    /\ now + REFRESH_INTERVAL <= MaxTime
    /\ now' = now + REFRESH_INTERVAL
    /\ UNCHANGED <<cache, history, apiCalls, nCalls, refreshed, last, companies, sweep, pending,
                   timers, refreshIntervals>>

ServiceNext ==
    \/ RefreshDataCall
    \/ ClearRefreshIntervalCall
    \/ TimerFires
    \/ FetchSettles
    \/ CompanyFound
    \/ CompanyWritten
    \/ ServiceTick

ServiceSpec == ServiceInit /\ [][ServiceNext]_vars

-----------------------------------------------------------------------------
(* The cache router's dispatch: the routes in the order of their registration,
   a path as the sequence of its segments, ":" standing for a path parameter.
   No handler of the router passes the request on, so the first route that
   matches handles it *)

MaxSegments == 4

CacheRoutes ==
    << [method |-> "GET",  path |-> <<"companies">>],
       [method |-> "POST", path |-> <<"companies">>],
       [method |-> "PUT",  path |-> <<"companies", ":">>],
       [method |-> "GET",  path |-> <<":", ":", ":">>],
       [method |-> "POST", path |-> <<":", ":", ":", "refresh">>],
       [method |-> "POST", path |-> <<"refresh">>],
       [method |-> "GET",  path |-> <<"onchain", ":">>],
       [method |-> "POST", path |-> <<":", "onchain", ":", "refresh">>],
       [method |-> "GET",  path |-> <<"onchain", ":", ":">>],
       [method |-> "GET",  path |-> <<":", "onchain", ":">>],
       [method |-> "GET",  path |-> <<":", "linkedin", ":">>] >>

(* The routes with a platform of their own, registered after the generic ones *)
DedicatedRoutes == {8, 9, 10, 11}

Methods == {"GET", "POST", "PUT"}
Segments == {"companies", "refresh", "onchain", "OnChain", "linkedin", "AcmeCo", "acme"}

(* A parameter matches any segment, a literal matches without regard to case *)
RouteMatches(route, method, path) ==
    /\ route.method = method
    /\ Len(route.path) = Len(path)
    /\ \A k \in 1..Len(path) :
          route.path[k] = ":" \/ route.path[k] = toLowerCase(path[k])

(* The index of the first registered route that matches, 0 when none does *)
Dispatch(method, path) ==
    IF \E r \in 1..Len(CacheRoutes) : RouteMatches(CacheRoutes[r], method, path)
    THEN CHOOSE r \in 1..Len(CacheRoutes) :
            /\ RouteMatches(CacheRoutes[r], method, path)
            /\ \A q \in 1..(r - 1) : ~RouteMatches(CacheRoutes[q], method, path)
    ELSE 0

(* A request arrives at the router *)
RouterDispatch ==
    /\ last = NoCall
    /\ \E method \in Methods, n \in 1..MaxSegments :
       \E path \in [1..n -> Segments] :
         last' = [NoCall EXCEPT !.op = "dispatch"]
                 @@ [method |-> method, path |-> path, handler |-> Dispatch(method, path)]
    /\ UNCHANGED <<now, cache, history, apiCalls, nCalls, refreshed, companies, sweep, pending,
                   timers, refreshIntervals>>

RouterNext ==
    \/ RouterDispatch
    \/ Respond

RouterSpec == ServiceInit /\ [][RouterNext]_vars

-----------------------------------------------------------------------------
(* The aggregate engagement rate of the LinkedIn fetch *)

(* (post.likeCount || 0) + (post.commentsCount || 0) + (post.repostsCount || 0) *)
LinkedInPostEngagement(post) ==
    OrZero(post.likeCount) + OrZero(post.commentsCount) + OrZero(post.repostsCount)

RECURSIVE totalEngagement(_)
totalEngagement(posts) ==
    IF posts = <<>> THEN 0
    ELSE LinkedInPostEngagement(Head(posts)) + totalEngagement(Tail(posts))

(* details.followerCount
     ? (totalEngagement / posts.length) / details.followerCount * 100 : 0 *)
engagementRate(posts, followerCount) ==
    IF Truthy(followerCount)
    THEN Times(Over(Ratio(totalEngagement(posts), Len(posts)), followerCount), 100)
    ELSE Zero

LinkedInPostCounts == {Absent, 5}
LinkedInPostRecords ==
    [likeCount : LinkedInPostCounts, commentsCount : LinkedInPostCounts,
     repostsCount : LinkedInPostCounts]
LinkedInPostLists ==
    UNION {[1..n -> LinkedInPostRecords] : n \in 0..MaxPosts}
LinkedInFollowerCounts == {Absent, 0, 100}

(* A forced LinkedIn fetch whose upstream answers with these posts and this
   follower count; the rate is the engagementRate field of the result it stores *)
EngagementRateFetch ==
    /\ Idle
    /\ \E username \in Identifiers, posts \in LinkedInPostLists,
          followerCount \in LinkedInFollowerCounts :
       \E out \in {fetchLinkedInData(cache, history, now, apiCalls, username, "AcmeCo", TRUE,
                                     "ok", [follower_count |-> OrZero(followerCount),
                                            tweets |-> Len(posts)], "ok")} :
         Commit(out, Observation("fetch", "linkedin", username, "AcmeCo", TRUE, "ok", "ok",
                                 cache, out, 0, out.payload)
                     @@ [linkedInPosts |-> posts, detailsFollowerCount |-> followerCount,
                         engagementRate |-> engagementRate(posts, followerCount)])

EngagementRateNext ==
    \/ EngagementRateFetch
    \/ Respond
    \/ Tick

EngagementRateSpec == Init /\ [][EngagementRateNext]_vars

Next ==
    \/ Tick
    \/ Respond
    \/ CallFetcher
    \/ SocialMediaGet
    \/ CacheRefreshPost
    \/ CacheGet
    \/ DirectOnchainPost

Spec == Init /\ [][Next]_vars

-----------------------------------------------------------------------------
(* Properties *)

(* C1: a call of fetchTwitterData, fetchOnchainData, fetchMediumData or
   fetchLinkedInData without forceRefresh that finds a live entry (expiresAt >
   now) returns that entry's data annotated _source = "cache" (the LinkedIn
   fetcher in the frontend format of the stored snapshot), makes no upstream
   call and leaves the entry as it was *)
C1_LiveEntryServedFromCache ==
    (/\ last.op = "fetch"
     /\ last.platform \in {"twitter", "onchain", "medium", "linkedin"}
     /\ ~last.force
     /\ last.pre.present
     /\ last.pre.expiresAt > last.t)
    => /\ last.kind = "return"
       /\ last.payload.source = "cache"
       /\ IF last.platform = "linkedin"
          THEN /\ last.payload.shape = "frontend"
               /\ last.payload.ver = last.pre.data.ver
               /\ last.payload.companyName = last.pre.data.companyName
               /\ last.payload.followerCount = last.pre.data.followerCount
               /\ last.payload.posts = last.pre.data.posts
          ELSE [last.payload EXCEPT !.source = "", !.lastUpdatedIso = <<>>]
               = [last.pre.data EXCEPT !.source = "", !.lastUpdatedIso = <<>>]
       /\ last.calls = 0
       /\ cache[FetcherKey(last.platform, last.identifier)] = last.pre

C1_Witness ==
    /\ last.op = "fetch"
    /\ last.platform = "linkedin"
    /\ ~last.force
    /\ last.pre.present
    /\ last.pre.expiresAt > last.t
    /\ last.t > StartTime
    /\ last.payload.source = "cache"

(* C2: a call of fetchTwitterData, fetchOnchainData or fetchLinkedInData with
   forceRefresh = true goes to the upstream even when a live entry exists; when
   the upstream succeeds the result carries _source = "api" and the cache entry
   holds the freshly fetched data *)
C2_ForceRefreshGoesUpstream ==
    (/\ last.op = "fetch"
     /\ last.platform \in {"twitter", "onchain", "linkedin"}
     /\ last.force)
    => /\ last.calls = 1
       /\ (last.up = "ok" /\ last.store = "ok") =>
            /\ last.kind = "return"
            /\ last.payload.source = "api"
            /\ last.payload.ver = apiCalls
            /\ cache[FetcherKey(last.platform, last.identifier)].present
            /\ cache[FetcherKey(last.platform, last.identifier)].data.ver = apiCalls
            /\ cache[FetcherKey(last.platform, last.identifier)].data.source = "api"
            /\ cache[FetcherKey(last.platform, last.identifier)].expiresAt > last.t

C2_Witness ==
    /\ last.op = "fetch"
    /\ last.platform = "onchain"
    /\ last.force
    /\ last.pre.present
    /\ last.pre.expiresAt > last.t
    /\ last.up = "ok"
    /\ last.payload.source = "api"
    /\ cache[FetcherKey(last.platform, last.identifier)].data.ver # last.pre.data.ver

(* C3: when the upstream fails in a call of the Twitter, on-chain or LinkedIn
   fetcher while an entry is stored (live or expired), the call returns the
   stored data with _source = "cache" instead of raising *)
C3_StaleEntryServedOnError ==
    (/\ last.op = "fetch"
     /\ last.platform \in {"twitter", "onchain", "linkedin"}
     /\ last.pre.present
     /\ last.up = "fail")
    => /\ last.kind = "return"
       /\ last.payload.source = "cache"
       /\ last.payload.ver = last.pre.data.ver

(* C4: a call of fetchTwitterData that finds no entry and whose upstream fails
   returns, and does not throw, a payload with success = false, a non-empty
   error, followerStats.current = 0, all change counts and percentages 0, no
   posts and _source = "error", and writes nothing to the cache *)
C4_TwitterSoftFailure ==
    (/\ last.op = "fetch"
     /\ last.platform = "twitter"
     /\ ~last.pre.present
     /\ last.up = "fail")
    => /\ last.kind = "return"
       /\ last.payload.success = "false"
       /\ last.payload.error # ""
       /\ last.payload.followerStats.current = 0
       /\ last.payload.followerStats.dayCount = 0
       /\ last.payload.followerStats.dayPct = 0
       /\ last.payload.followerStats.weekCount = 0
       /\ last.payload.followerStats.weekPct = 0
       /\ last.payload.posts = 0
       /\ last.payload.source = "error"
       /\ last.wrote = {}
       /\ ~last.wroteHistory
       /\ ~cache[FetcherKey("twitter", last.identifier)].present

C4_Witness ==
    /\ last.op = "fetch"
    /\ last.platform = "twitter"
    /\ ~last.pre.present
    /\ last.up = "fail"
    /\ last.calls = 1
    /\ last.payload.source = "error"

(* C5: a call of fetchLinkedInData whose upstream fails with no entry stored
   returns a degraded payload with success = false rather than raising *)
C5_LinkedInSoftFailure ==
    (/\ last.op = "fetch"
     /\ last.platform = "linkedin"
     /\ ~last.pre.present
     /\ last.up = "fail")
    => /\ last.kind = "return"
       /\ last.payload.success = "false"

(* C6: a call of fetchOnchainData that finds no entry and whose upstream fails
   raises an error, the routes that made the call answer 500, and no cache
   entry of that key is created or modified *)
C6_OnchainHardFailure ==
    (/\ last.op \in {"fetch", "socialMediaGet", "cacheRefreshPost", "cacheGet",
                    "directOnchainPost"}
     /\ toLowerCase(last.platform) = "onchain"
     /\ ~last.pre.present
     /\ last.up = "fail")
    => /\ last.kind = "throw"
       /\ last.op # "fetch" => last.status = 500
       /\ FetcherKey("onchain", last.identifier) \notin last.wrote
       /\ ~cache[FetcherKey("onchain", last.identifier)].present

C6_Witness ==
    /\ last.op = "cacheRefreshPost"
    /\ toLowerCase(last.platform) = "onchain"
    /\ ~last.pre.present
    /\ last.up = "fail"
    /\ last.calls = 1
    /\ last.status = 500

(* C7: after a successful fetch has written cache key k, the entry carries both
   lastUpdated and expiresAt with expiresAt = lastUpdated + TTL(platform)
   exactly (6 hours on-chain, 12 hours otherwise), and a read of k without
   forceRefresh made before expiresAt returns _source = "cache" with the data
   that fetch returned *)
C7_EntryCarriesBothStamps ==
    /\ \A p \in VALID_PLATFORMS, i \in Identifiers :
          cache[FetcherKey(p, i)].present =>
            /\ cache[FetcherKey(p, i)].lastUpdated # Absent
            /\ cache[FetcherKey(p, i)].expiresAt # Absent
            /\ cache[FetcherKey(p, i)].expiresAt
                 = cache[FetcherKey(p, i)].lastUpdated
                   + (IF p = "onchain" THEN TTL_6H ELSE TTL_12H)
    /\ (/\ last.op = "fetch"
        /\ ~last.force
        /\ last.pre.present
        /\ last.t < last.pre.expiresAt)
       => /\ last.kind = "return"
          /\ last.payload.source = "cache"
          /\ last.payload.ver = last.pre.data.ver

(* C8: every cache write, by the four fetchers and by the POST refresh route,
   sets expiresAt to the time of the write plus 6 hours for on-chain data and
   plus 12 hours for Twitter, LinkedIn and Medium *)
C8_WriteSetsPlatformTTL ==
    \A p \in {"onchain", "twitter", "linkedin", "medium"}, i \in Identifiers :
        (/\ last.op \in {"fetch", "cacheRefreshPost"}
         /\ FetcherKey(p, i) \in last.wrote)
        => cache[FetcherKey(p, i)].expiresAt
             = last.t + (IF p = "onchain" THEN TTL_6H ELSE TTL_12H)

(* C9: every POST /api/cache/:companyName/:platform/:identifier/refresh that
   answers 200 has made a fresh upstream fetch and stored that fresh data,
   whatever the force flag and whether or not a live entry existed *)
C9_RefreshAlwaysFetches ==
    (/\ last.op = "cacheRefreshPost"
     /\ last.status = 200)
    => /\ last.payload.source # "cache"
       /\ toLowerCase(last.platform) # "medium" =>
            /\ last.calls = 1
            /\ last.up = "ok"
            /\ last.payload.ver = apiCalls
       /\ cache[FetcherKey(toLowerCase(last.platform), last.identifier)].data = last.payload

(* C10: after POST .../refresh has answered 200 for (company, platform,
   identifier), a GET /api/cache/:companyName/:platform/:identifier for the same
   triple made before the stored expiresAt answers 200 with the stored data and
   _source = "cache", for every platform of onchain, linkedin, twitter,
   telegram and medium *)
C10_GetAfterRefreshHits ==
    (/\ last.op = "cacheGet"
     /\ last.platform \in {"onchain", "linkedin", "twitter", "telegram", "medium"}
     /\ last.refreshedBefore
     /\ last.pre.present
     /\ last.t < last.pre.expiresAt)
    => /\ last.status = 200
       /\ last.payload.source = "cache"
       /\ [last.payload EXCEPT !.source = "", !.lastUpdatedIso = <<>>]
          = [last.pre.data EXCEPT !.source = "", !.lastUpdatedIso = <<>>]

(* C11: GET /api/cache/:companyName/:platform/:identifier answers 404 whenever
   no live entry (expiresAt > now) exists for the requested triple, for every
   platform, onchain included, and then makes no upstream call and writes
   nothing to the cache *)
C11_GetMissAnswers404 ==
    (/\ last.op = "cacheGet"
     /\ LET entry == IF toLowerCase(last.platform) = "onchain" THEN last.pre
                     ELSE findOne(cache, RouteKey(last.companyName, last.platform,
                                                  last.identifier))
        IN ~(entry.present /\ entry.expiresAt > last.t))
    => /\ last.status = 404
       /\ last.calls = 0
       /\ last.wrote = {}

(* C12: POST /api/direct/onchain/:identifier performs no document-store
   operation while it handles a request (no read, no delete, no write of the
   cache collection); its response depends only on the upstream on-chain data *)
C12_DirectRouteBypassesStore ==
    last.op = "directOnchainPost"
    => /\ last.wrote = {}
       /\ last.calls = 1
       /\ last.status = 200 => last.payload.ver = apiCalls
       /\ last.status = 200 <=> last.up = "ok"

(* C15: when a document-store write (the cache upsert or the follower-history
   write) fails during a fetch, the fetcher raises an error to its caller and
   never returns a payload (fresh, stale or soft-failure) for that call; this
   holds for Twitter as well as for on-chain, LinkedIn and Medium *)
C15_StoreWriteFailureRaises ==
    (/\ last.op = "fetch"
     /\ last.platform \in {"twitter", "onchain", "linkedin", "medium"}
     /\ last.store = "fail"
     /\ IF last.platform = "medium"
        THEN last.force \/ ~(last.pre.present /\ last.pre.expiresAt > last.t)
        ELSE last.up = "ok")
    => last.kind = "throw"

(* C13: each run of the background sweep (at the construction of the service
   and then every 6 hours) performs an upstream on-chain fetch for every company
   that has an on-chain identifier *)
C13_SweepRefetchesEveryCompany ==
    (sweep.pos = 0 /\ sweep.runs > 0 /\ sweep.found)
    => \A i \in 1..Len(sweep.list) :
          sweep.list[i].onchain # "" => i \in sweep.fetched

(* C14: during one background sweep a failure (of the upstream or of the store)
   while refreshing one company does not abort the sweep: every company of the
   list that has an on-chain identifier is attempted, and the sweep raises no
   error to the timer *)
C14_SweepIsolatesFailures ==
    /\ ~sweep.raised
    /\ (sweep.pos = 0 /\ sweep.runs > 0 /\ sweep.found)
       => \A i \in 1..Len(sweep.list) :
             sweep.list[i].onchain # "" => i \in sweep.attempted
    /\ sweep.pos > 0
       => \A i \in 1..(sweep.pos - 1) :
             sweep.list[i].onchain # "" => i \in sweep.attempted

C14_Witness ==
    /\ sweep.pos = 0
    /\ sweep.runs > 0
    /\ 1 \in sweep.failed
    /\ 3 \in sweep.attempted
    /\ 3 \in sweep.fetched

(* C16: the cache collection holds at most one document per key, and after any
   interleaving of refreshes of the same key the stored entry is the complete
   record (data, lastUpdated and expiresAt together) written by one of those
   refreshes, never a mixture of fields of different writers.  The store of
   this module keeps one document per key; a record written whole has its
   expiresAt one TTL after its lastUpdated *)
C16_EntryWrittenWhole ==
    \A p \in VALID_PLATFORMS, i \in Identifiers :
        (/\ cache[FetcherKey(p, i)].present
         /\ cache[FetcherKey(p, i)].lastUpdated # Absent)
        => cache[FetcherKey(p, i)].expiresAt - cache[FetcherKey(p, i)].lastUpdated
             \in {TTL_6H, TTL_12H}

(* C17: every payload stored under a <platform>:<identifier> key is the product
   of a successful upstream fetch: a failed fetch, one that returns a
   soft-failure payload with success = false included, never creates or
   overwrites a cache entry, through any fetcher or route *)
C17_NoFailureStored ==
    /\ \A p \in VALID_PLATFORMS, i \in Identifiers :
          cache[FetcherKey(p, i)].present =>
            /\ cache[FetcherKey(p, i)].data.success # "false"
            /\ cache[FetcherKey(p, i)].data.source # "error"
    /\ last.up = "fail" =>
          \A p \in VALID_PLATFORMS, i \in Identifiers : FetcherKey(p, i) \notin last.wrote

(* C18: the Twitter follower delta over one week takes as reference the follower
   count of the latest recorded history point with timestamp <= now - 7 days
   (the current count if there is none), and oneWeekChange.count = current -
   reference; with the recorded history [{-10d, 100}, {-2d, 150}] and the
   current count 200 a fetch yields oneDayChange.count = 50 and
   oneWeekChange.count = 100 *)
C18_WeekDeltaReference ==
    (/\ last.op = "fetch"
     /\ last.platform = "twitter"
     /\ last.kind = "return"
     /\ last.payload.source = "api")
    => LET h == last.preHistory
           current == last.payload.followerStats.current
           cand == {i \in 1..Len(h) : /\ h[i].identifier = last.identifier
                                      /\ h[i].timestamp <= last.t - ONE_WEEK}
           reference == IF cand = {} THEN current
                        ELSE h[CHOOSE i \in cand :
                                  \A j \in cand : h[j].timestamp <= h[i].timestamp].followers
       IN /\ last.payload.followerStats.weekCount = current - reference
          /\ (/\ h = <<[identifier |-> last.identifier, followers |-> 100,
                        timestamp |-> last.t - 10 * ONE_DAY],
                       [identifier |-> last.identifier, followers |-> 150,
                        timestamp |-> last.t - 2 * ONE_DAY]>>
              /\ current = 200)
             => /\ last.payload.followerStats.dayCount = 50
                /\ last.payload.followerStats.weekCount = 100

(* C19: the cache key of the platform fetchers is <platform>:<identifier> and
   does not depend on companyName: when the fetch of one company has stored a
   live entry for (platform, identifier), a later fetch of another company for
   the same platform and identifier without forceRefresh returns the stored
   data, its companyName included, and makes no upstream call *)
C19_KeyIgnoresCompany ==
    (/\ last.op = "fetch"
     /\ last.platform \in {"twitter", "onchain", "medium"}
     /\ ~last.force
     /\ last.pre.present
     /\ last.pre.expiresAt > last.t)
    => /\ last.kind = "return"
       /\ last.calls = 0
       /\ last.payload.source = "cache"
       /\ last.payload.companyName = last.pre.data.companyName
       /\ last.payload.ver = last.pre.data.ver
       /\ cache[FetcherKey(last.platform, last.identifier)] = last.pre

C19_Witness ==
    /\ last.op = "fetch"
    /\ last.platform = "twitter"
    /\ ~last.force
    /\ last.pre.present
    /\ last.pre.expiresAt > last.t
    /\ last.companyName = "BetaCo"
    /\ last.payload.companyName = "AcmeCo"
    /\ last.calls = 0

(* C20: GET /api/social-media/:platform/:identifier answers 400 when the
   companyName query parameter is missing or not a string and when the
   platform is not one of linkedin, twitter, telegram, medium, onchain, and
   then no fetcher runs: no upstream call, no write to the cache, no follower
   row.  Otherwise the fetcher of the requested platform runs once: the answer
   is 200 with a payload of that platform or 500, at most one upstream call is
   made and only the entry of that platform and identifier (and, for onchain,
   the legacy entries its clean-up deletes) is written *)
C20_SocialMediaValidation ==
    last.op = "socialMediaGet" =>
        IF last.companyName = "" \/ last.platform \notin VALID_PLATFORMS
        THEN /\ last.status = 400
             /\ last.calls = 0
             /\ last.wrote = {}
             /\ ~last.wroteHistory
             /\ last.payload = NoData
        ELSE /\ last.status \in {200, 500}
             /\ last.calls <= 1
             /\ last.wrote \subseteq
                   {FetcherKey(last.platform, last.identifier)}
                   \cup (IF last.platform = "onchain"
                         THEN {LegacyKey(last.identifier)} ELSE {})
             /\ last.wroteHistory => last.platform = "twitter"
             /\ last.status = 200 => last.payload.shape # "none"
             /\ (last.status = 200 /\ last.payload.platform # "")
                    => <<last.platform, last.payload.platform>> \in
                          {<<"twitter", "Twitter">>, <<"medium", "Medium">>,
                           <<"onchain", "Onchain">>, <<"telegram", "Telegram">>,
                           <<"linkedin", "LinkedIn">>}

C20_Witness ==
    /\ last.op = "socialMediaGet"
    /\ last.companyName = ""
    /\ last.platform = "twitter"
    /\ last.pre.present
    /\ last.status = 400

(* C21: the Twitter engagement rate is (likes + reshares + replies of the
   fetched posts) / (followerCount * number of fetched posts) * 100, and it is
   exactly 0 when followerCount is 0 or no post was fetched; the per-post
   average rate and the 24h rate are 0 when followerCount is 0; none of the
   three is the result of a division by zero *)
C21_EngagementRate ==
    "metrics" \in DOMAIN last =>
        LET m == last.metrics
            followerCount == OrZero(last.follower_count)
            n == Len(last.recentTweets)
            total == m.totalLikes + m.totalShares + m.totalReplies
        IN /\ Finite(m.avgEngagementRate)
           /\ Finite(m.engagementRatePerPost)
           /\ Finite(m.dailyEngagementRate)
           /\ IF followerCount = 0 \/ n = 0
              THEN m.avgEngagementRate = Zero
              ELSE m.avgEngagementRate.num * (followerCount * n)
                      = total * 100 * m.avgEngagementRate.den
           /\ followerCount = 0 =>
                 /\ m.engagementRatePerPost.num = 0
                 /\ m.dailyEngagementRate = Zero

C21_Witness ==
    /\ "metrics" \in DOMAIN last
    /\ last.follower_count = 0
    /\ Len(last.recentTweets) = 2
    /\ last.metrics.totalLikes = 10
    /\ last.metrics.likes24h = 5
    /\ last.payload.followerStats.current = 0

(* C22: growth(cur, prev) is 0 when prev = 0 and (cur - prev) / prev * 100
   otherwise, and dailyChangePercent = growth(dailyFees, previousDayFees); a
   fetch that gets a daily-fees series ending in 800, 1000 and no reported
   24h and 48h totals yields dailyFees 1000, previousDayFees 800 and
   dailyChangePercent 25 *)
C22_DailyChange ==
    ("fees" \in DOMAIN last /\ last.kind = "return" /\ last.calls > 0) =>
        LET f == last.fees
            ch == last.feesData.totalDataChart
        IN /\ IF f.previousDayFees = 0
              THEN f.dailyChangePercent = Zero
              ELSE /\ Finite(f.dailyChangePercent)
                   /\ f.dailyChangePercent.num * f.previousDayFees
                         = (f.dailyFees - f.previousDayFees) * 100 * f.dailyChangePercent.den
           /\ (/\ Len(ch) >= 2
               /\ ch[Len(ch) - 1] = 800
               /\ ch[Len(ch)] = 1000
               /\ last.feesData.total24h = Absent
               /\ last.feesData.total48hto24h = Absent)
              => /\ f.dailyFees = 1000
                 /\ f.previousDayFees = 800
                 /\ f.dailyChangePercent.num = 25 * f.dailyChangePercent.den

C22_Witness ==
    /\ "fees" \in DOMAIN last
    /\ last.kind = "return"
    /\ last.calls > 0
    /\ last.feesData.totalDataChart = <<800, 1000>>
    /\ last.feesData.total24h = Absent
    /\ last.feesData.total48hto24h = Absent
    /\ last.fees.dailyFees = 1000

(* C23: normalization is deterministic: two fetches that receive the same raw
   upstream payload and see the same stored history produce identical
   payloads, whatever the wall-clock time of each call *)
C23_NormalizationDeterministic ==
    ("again" \in DOMAIN last /\ last.kind = "return") => last.again = last.payload

(* C24: the Twitter follower delta over one day takes as reference the follower
   count of the most recent recorded history point with timestamp <= now - 24h,
   or the current count when there is none; oneDayChange.count = current -
   reference, and oneDayChange.percentage = count / reference * 100 rounded to
   2 decimals, or 0 when the reference is 0 *)
C24_DayDeltaReference ==
    (/\ last.op = "fetch"
     /\ last.platform = "twitter"
     /\ last.kind = "return"
     /\ last.payload.source = "api")
    => LET h == last.preHistory
           current == last.payload.followerStats.current
           cand == {i \in 1..Len(h) : /\ h[i].identifier = last.identifier
                                      /\ h[i].timestamp <= last.t - ONE_DAY}
           reference == IF cand = {} THEN current
                        ELSE h[CHOOSE i \in cand :
                                  \A j \in cand : h[j].timestamp <= h[i].timestamp].followers
       IN /\ last.payload.followerStats.dayCount = current - reference
          /\ last.payload.followerStats.dayPct =
                IF reference = 0 THEN 0 ELSE PercentOf(current - reference, reference)

(* C25: a Twitter fetch at time t that gets fresh data writes the follower
   history thus: when a row of the identifier with timestamp >= t - 1h exists,
   the number of rows is unchanged and one such row now holds timestamp t and
   the current follower count; otherwise exactly one row (t, current count) is
   appended; every other row is left as it was *)
C25_HistoryWritePolicy ==
    (/\ last.op = "fetch"
     /\ last.platform = "twitter"
     /\ last.kind = "return"
     /\ last.payload.source = "api")
    => LET h == last.preHistory
           row == [identifier |-> last.identifier,
                   followers |-> last.payload.followerStats.current,
                   timestamp |-> last.t]
           recent == {i \in 1..Len(h) : /\ h[i].identifier = last.identifier
                                        /\ h[i].timestamp >= last.t - ONE_HOUR}
       IN IF recent # {}
          THEN /\ Len(history) = Len(h)
               /\ \E i \in recent :
                     /\ history[i] = row
                     /\ \A j \in 1..Len(h) : j # i => history[j] = h[j]
          ELSE history = Append(h, row)

C25_Witness ==
    /\ last.op = "fetch"
    /\ last.platform = "twitter"
    /\ last.payload.source = "api"
    /\ Len(last.preHistory) = 2
    /\ last.preHistory[1].identifier = "beta"
    /\ last.preHistory[2].identifier = "acme"
    /\ last.preHistory[2].timestamp = last.t - ONE_HOUR
    /\ last.preHistory[2].followers = 100
    /\ Len(history) = 2
    /\ history[1] = last.preHistory[1]
    /\ history[2].timestamp = last.t
    /\ history[2].followers = 150

(* C26: the clean-up at the start of fetchOnchainData(identifier) deletes every
   cache row whose key is onchain:<identifier>: followed by a suffix and
   leaves the canonical entry onchain:<identifier>, every entry of another
   identifier, and every entry and history row of another platform as they
   were; a store failure during the clean-up is swallowed and does not by
   itself fail the fetch *)
C26_CleanupFrame ==
    ("preCache" \in DOMAIN last /\ last.platform = "onchain") =>
        LET id == last.identifier
            canonical == FetcherKey("onchain", id)
            legacyOfId == {k \in CacheKeys : Len(k) = 3 /\ k[1] = "onchain" /\ k[2] = id}
        IN /\ last.store = "ok" => \A k \in legacyOfId : ~cache[k].present
           /\ \A k \in CacheKeys \ (legacyOfId \cup {canonical}) : cache[k] = last.preCache[k]
           /\ last.preCache[canonical].present => cache[canonical].present
           /\ last.calls = 0 => cache[canonical] = last.preCache[canonical]
           /\ history = last.preHistory
           /\ (last.store = "fail" /\ ~last.force /\ IsLive(last.preCache[canonical], last.t))
                 => last.kind = "return"

(* C27: an upstream payload that lacks expected fields never makes a fetcher
   raise an error: the missing field is replaced by a zero or empty default and
   a payload is returned; this holds for an on-chain fees answer without its
   daily-fees series and for a LinkedIn details answer without a data object *)
C27_PartialPayloadReturned ==
    (/\ last.calls > 0
     /\ \/ "feesData" \in DOMAIN last /\ ~last.feesData.hasTotalDataChart
        \/ "details" \in DOMAIN last /\ ~last.details.hasData)
    => last.kind = "return"

(* C28: a Twitter fetch invokes the summary generator at most once, with the
   texts of at most the first 20 fetched posts, and not at all when there are
   no posts; when the generator fails the fetch still succeeds with summary =
   "" and writes the cache entry and the history row as it does when the
   generator succeeds *)
C28_SummaryGenerator ==
    "summaryRequests" \in DOMAIN last =>
        LET reqs == last.summaryRequests
            key == FetcherKey("twitter", last.identifier)
        IN /\ Len(reqs) <= 1
           /\ Len(last.recentTweets) = 0 => reqs = <<>>
           /\ \A i \in 1..Len(reqs) :
                 /\ Len(reqs[i]) <= 20
                 /\ reqs[i] = SubSeq(last.recentTweets, 1, Len(reqs[i]))
           /\ (last.gem = "fail" /\ reqs # <<>>) =>
                 /\ last.kind = "return"
                 /\ last.payload.success = "true"
                 /\ last.payload.summary = ""
                 /\ history = last.summarized.history
                 /\ cache[key] = [last.summarized.cache[key] EXCEPT !.data.summary = ""]
                 /\ \A k \in CacheKeys \ {key} : cache[k] = last.summarized.cache[k]

C28_Witness ==
    /\ "summaryRequests" \in DOMAIN last
    /\ Len(last.recentTweets) = 40
    /\ Len(last.summaryRequests) = 1
    /\ Len(last.summaryRequests[1]) = 20
    /\ last.gem = "fail"
    /\ last.payload.summary = ""
    /\ last.wroteHistory
    /\ last.summarized.cache[FetcherKey("twitter", last.identifier)].data.summary = "summary"

(* C29: after every successful upstream LinkedIn fetch at time t the
   followersHistory of the cache entry contains the new point (current
   follower count, t) and only points with t - timestamp <= 30 days, in append
   order; the 24h change is taken against the most recent point with
   t - timestamp >= 24h: count = current - that point's count, and count 0 and
   percentage 0 when there is no such point or its count is 0 *)
C29_LinkedInHistoryKept ==
    (/\ last.op \in {"fetch", "cacheRefreshPost"}
     /\ last.platform = "linkedin"
     /\ last.kind = "return"
     /\ last.calls > 0
     /\ last.payload.source = "api")
    => LET fh == cache[FetcherKey("linkedin", last.identifier)].data.followersHistory
           current == last.payload.followerStats.current
           point == [count |-> current, timestamp |-> last.t]
           before == Append(last.pre.data.followersHistory, point)
           old == {i \in 1..Len(fh) : last.t - fh[i].timestamp >= ONE_DAY}
           prev == CHOOSE i \in old : \A j \in old : j <= i
       IN /\ fh # <<>>
          /\ fh[Len(fh)] = point
          /\ \A i \in 1..Len(fh) :
                /\ last.t - fh[i].timestamp <= THIRTY_DAYS
                /\ \E k \in 1..Len(before) : before[k] = fh[i]
          /\ \A i \in 1..Len(fh), j \in 1..Len(fh) :
                i < j => fh[i].timestamp <= fh[j].timestamp
          /\ IF old = {} \/ fh[prev].count = 0
             THEN /\ last.payload.followerStats.dayCount = 0
                  /\ last.payload.followerStats.dayPct = 0
             ELSE last.payload.followerStats.dayCount = current - fh[prev].count

(* C30: a refresh never loses LinkedIn follower history: a point of the
   followersHistory of the entry linkedin:<identifier> that was recorded less
   than 30 days ago is still in it after any fetch or refresh request *)
C30_LinkedInHistoryNeverLost ==
    [][\A username \in Identifiers :
          LET fh == cache[FetcherKey("linkedin", username)].data.followersHistory
              fh2 == cache'[FetcherKey("linkedin", username)].data.followersHistory
          IN \A i \in 1..Len(fh) :
                now' - fh[i].timestamp < THIRTY_DAYS
                    => \E k \in 1..Len(fh2) : fh2[k] = fh[i]]_vars

(* C31: when the successful Twitter fetches of an identifier span more than
   24 hours, the fetch at the end of the span finds a recorded history point
   with timestamp <= now - 24h, so that oneDayChange is computed against
   recorded history, however frequent the fetches were *)
C31_DayReferenceRecorded ==
    (/\ last.op = "fetch"
     /\ last.platform = "twitter"
     /\ last.payload.source = "api"
     /\ last.t - StartTime > ONE_DAY)
    => \E i \in 1..Len(last.preHistory) :
          /\ last.preHistory[i].identifier = last.identifier
          /\ last.preHistory[i].timestamp <= last.t - ONE_DAY

(* C32: no two Twitter follower-history rows of the same identifier ever have
   timestamps less than one hour apart, also when two fetches of the identifier
   run concurrently and when the coalescing update matches a row without
   modifying it *)
C32_RowsAnHourApart ==
    \A i \in 1..Len(history), j \in 1..Len(history) :
        (i < j /\ history[i].identifier = history[j].identifier)
            => \/ history[j].timestamp - history[i].timestamp >= ONE_HOUR
               \/ history[i].timestamp - history[j].timestamp >= ONE_HOUR

(* C33: after a successful upstream Twitter fetch of an identifier has recorded
   follower-history points, GET /history/:identifier on the Twitter router
   returns a non-empty list of points *)
C33_HistoryRouteReadsSeries ==
    ("points" \in DOMAIN last
        /\ \E i \in 1..Len(history) : history[i].identifier = last.identifier)
        => last.points # <<>>

(* C34: on a cache hit of the on-chain or the Twitter fetcher that returns the
   payload of a successful upstream fetch, the reported _lastUpdated is the time
   that data was fetched from upstream, which the data itself records as its
   expiresAt less the platform's TTL, whatever writes the fetchers and the
   refresh route made to the entry before *)
C34_HitReportsFetchTime ==
    (/\ last.op \in {"fetch", "cacheRefreshPost"}
     /\ toLowerCase(last.platform) \in {"onchain", "twitter"}
     /\ last.kind = "return"
     /\ last.calls = 0
     /\ last.payload.source = "cache"
     /\ last.payload.success = "true")
    => last.payload.lastUpdatedIso
         = toISOString(last.payload.expiresAt
                         - (IF toLowerCase(last.platform) = "onchain" THEN TTL_6H ELSE TTL_12H))

(* C35: setCachedData for one platform never removes or alters the stored data
   of another platform of the same company and never leaves two company
   documents of one name, also when two setCachedData calls of the company run
   concurrently *)
C35_SetCachedDataFrame ==
    /\ \A i \in 1..Len(companies), j \in 1..Len(companies) :
          i # j => companies[i].name # companies[j].name
    /\ "lost" \in DOMAIN last => last.lost = {}

(* C36: at every moment at most one refresh timer is active for a key
   (companyName, platform, identifier), and every active timer is the one
   recorded in refreshIntervals under its key, after any interleaving of
   refreshData and clearRefreshInterval calls *)
C36_OneTimerPerKey ==
    /\ \A i \in 1..Len(timers), j \in 1..Len(timers) :
          (i # j /\ timers[i].active /\ timers[j].active) => timers[i].key # timers[j].key
    /\ \A i \in 1..Len(timers) :
          timers[i].active
              => /\ timers[i].key \in DOMAIN refreshIntervals
                 /\ refreshIntervals[timers[i].key] = i

(* C37: no write to a company's stored data is made by the callback of a timer
   that has been cleared, a callback whose fetch was in flight when the timer
   was cleared included *)
C37_ClearedTimerWritesNothing ==
    ("timer" \in DOMAIN last /\ last.timer # NoTimer) => last.timerActive

(* C38: a request on the cache router that matches one of the dedicated routes
   (POST /<company>/onchain/<identifier>/refresh, GET /onchain/<company>/<identifier>,
   GET /<company>/onchain/<identifier>, GET /<company>/linkedin/<identifier>) is
   handled by a dedicated route, not by a generic route registered earlier *)
C38_DedicatedRoutesReached ==
    ("handler" \in DOMAIN last
        /\ \E r \in DedicatedRoutes : RouteMatches(CacheRoutes[r], last.method, last.path))
        => last.handler \in DedicatedRoutes

(* C39: the aggregate engagement rate a LinkedIn fetch computes and stores is a
   defined number: 0 when followerCount is 0 or absent and when no post was
   fetched, else (sum over the posts of likes + comments + reposts) / postCount
   / followerCount * 100 *)
C39_EngagementRateDefined ==
    "engagementRate" \in DOMAIN last =>
        /\ Finite(last.engagementRate)
        /\ IF ~Truthy(last.detailsFollowerCount) \/ Len(last.linkedInPosts) = 0
           THEN last.engagementRate.num = 0
           ELSE last.engagementRate.num * Len(last.linkedInPosts) * last.detailsFollowerCount
                  = totalEngagement(last.linkedInPosts) * 100 * last.engagementRate.den

====
